---- MODULE Spec2Model ----
(***************************************************************************)
(* Model of the apoioprocessual backend: the document lifecycle            *)
(* (upload_document, process_document, update_document, delete_document),  *)
(* similarity search (search_similar_chunks) and the chat orchestrator     *)
(* (chat, chat_stream, send_message, send_message_stream, the Telegram     *)
(* handler).                                                               *)
(*                                                                         *)
(* Database tables are variables holding the COMMITTED state; what a       *)
(* request holds in its SQLAlchemy session is kept apart (sess, upd).      *)
(* Sessions are created with expire_on_commit=False (the handlers read     *)
(* attributes of loaded objects after a commit), so a handler keeps        *)
(* working on the copy it loaded.                                          *)
(*                                                                         *)
(* Fault model of process_document: every call inside its guarded region   *)
(* may raise (storage download, extraction or transcription, chunking,     *)
(* embedding, the storing commit, the temp-file cleanup of the finally     *)
(* block), and so may the commit of its except handler and the commit of   *)
(* the handler of process_document_task.  Optional values are NULL for     *)
(* strings and a sequence of length 0 or 1 for structured values.          *)
(*                                                                         *)
(* The specifications share the variables:                                 *)
(*   Spec        the document lifecycle (upload, ingestion, update,        *)
(*               delete);                                                  *)
(*   SpecPatch   update_document requests running at once on a processed   *)
(*               document;                                                 *)
(*   SpecSearch  search_similar_chunks running against the lifecycle;      *)
(*   SpecChat    the chat requests of the three channels over a stored     *)
(*               corpus of one processed document per case;                *)
(*   SpecHistory the chat requests on conversations that hold messages;    *)
(*   SpecTelegram the Telegram commands and messages;                      *)
(*   SpecTitle   _generate_title running against update_conversation;      *)
(*   SpecBatch   the ingestion of documents of many chunks (several        *)
(*               embedding batches);                                       *)
(*   SpecEmbed   generate_embeddings applied to lists of texts;            *)
(*   SpecChunk   chunk_text applied to texts.                              *)
(***************************************************************************)
EXTENDS Integers, Sequences, FiniteSets, TLC

\* ---------------------------------------------------------------- bounds
MaxDocs == 1

\* ------------------------------------------------------ program constants
CHUNK_SIZE == 500
CHUNK_OVERLAP == 50
SIMILARITY_TOP_K == 5
\* SIMILARITY_THRESHOLD = 0.3, in thousandths
SIMILARITY_THRESHOLD == 300

NULL == "null"
Docs == 1..MaxDocs
Casos == {1, 2}
FinancialTypes == {"extrato_bancario", "comprovante"}
Tipos == {"contrato", "extrato_bancario", "comprovante"}

\* ------------------------------------------------------------ input data
\* An extracted text is the sequence of sentence units that re.split yields;
\* a unit carries its identity, its token count (count_tokens of the unit
\* alone) and `lead`, the tokens that the joining space adds in front of it
\* when it follows another unit in " ".join (0 when the tokenizer merges the
\* space into the unit's first token, 1 when the space is a token of its
\* own, as before a digit); a unit of zero tokens is a blank one (empty
\* after strip()).
Sent(i, t, l) == [id |-> i, tok |-> t, lead |-> l]
BlankText == << Sent(1, 0, 0) >>
TwoChunkText == << Sent(2, 300, 0), Sent(3, 300, 1) >>
Arquivos == {BlankText, TwoChunkText}

\* The embedding service as a fixed oracle from a text to a vector (the design
\* assumes a deterministic service); vectors are small integer vectors.
QueryA == <<1, 0>>
QueryB == <<3, 10>>
Queries == {QueryA, QueryB}
\* A query that no stored chunk is similar to (used by the chat requests).
QueryC == <<1, -1>>

EmbedSentence(s) ==
  CASE s.id = 1 -> <<1, 1>>
    [] s.id = 2 -> <<0, 1>>
    [] s.id = 3 -> <<1, 3>>
    [] OTHER -> <<1, 0>>

RECURSIVE SumTok(_)
SumTok(ss) == IF ss = <<>> THEN 0 ELSE ss[1].tok + SumTok(Tail(ss))

RECURSIVE SumLead(_)
SumLead(ss) == IF ss = <<>> THEN 0 ELSE ss[1].lead + SumLead(Tail(ss))

\* count_tokens of one sentence, and of the string that joins the units with
\* single spaces (lines 130-133, 154-157): the tokenizer runs on the joined
\* string, so every unit after the first counts with its joining space.
count_tokens(s) == s.tok
count_tokens_joined(ss) ==
  IF ss = <<>> THEN 0 ELSE SumTok(ss) + SumLead(Tail(ss))

\* ---------------------------------------------------------------- chunking
\* Faulty variant: no unit is kept for the overlap.
OverlapWalkNone(current_chunk, k, overlap_sentences, overlap_tokens, overlap) ==
  [sentences |-> <<>>, tokens |-> 0]

\* The overlap walk of chunk_text: from the end of the closed chunk, keep
\* units while their token total stays within the overlap budget.
RECURSIVE OverlapWalk(_, _, _, _, _)
OverlapWalk(current_chunk, k, overlap_sentences, overlap_tokens, overlap) ==
  IF k = 0 THEN [sentences |-> overlap_sentences, tokens |-> overlap_tokens]
  ELSE LET t == count_tokens(current_chunk[k]) IN
       IF overlap_tokens + t > overlap
       THEN [sentences |-> overlap_sentences, tokens |-> overlap_tokens]
       ELSE OverlapWalk(current_chunk, k - 1, <<current_chunk[k]>> \o overlap_sentences,
                        overlap_tokens + t, overlap)

MakeChunk(current_chunk) ==
  [conteudo |-> current_chunk, token_count |-> count_tokens_joined(current_chunk)]

\* Faulty variant: the unit that closes a chunk is not carried into the next.
ChunkStepDropsUnit(st, sentence, chunk_size, overlap) ==
  LET sent_tokens == count_tokens(sentence)
  IN IF sentence.tok = 0 THEN st
     ELSE IF st.current_tokens + sent_tokens > chunk_size /\ st.current_chunk # <<>>
     THEN LET ov == OverlapWalk(st.current_chunk, Len(st.current_chunk), <<>>, 0, overlap)
          IN [chunks |-> Append(st.chunks, MakeChunk(st.current_chunk)),
              current_chunk |-> ov.sentences,
              current_tokens |-> ov.tokens]
     ELSE [chunks |-> st.chunks,
           current_chunk |-> Append(st.current_chunk, sentence),
           current_tokens |-> st.current_tokens + sent_tokens]

\* One pass of the loop body (lines 122-150) for the unit `sentence`, from the
\* loop state st = [chunks, current_chunk, current_tokens].
ChunkStep(st, sentence, chunk_size, overlap) ==
  LET sent_tokens == count_tokens(sentence)
  IN IF sentence.tok = 0 THEN st
     ELSE IF st.current_tokens + sent_tokens > chunk_size /\ st.current_chunk # <<>>
     THEN LET ov == OverlapWalk(st.current_chunk, Len(st.current_chunk), <<>>, 0, overlap)
          IN [chunks |-> Append(st.chunks, MakeChunk(st.current_chunk)),
              current_chunk |-> Append(ov.sentences, sentence),
              current_tokens |-> ov.tokens + sent_tokens]
     ELSE [chunks |-> st.chunks,
           current_chunk |-> Append(st.current_chunk, sentence),
           current_tokens |-> st.current_tokens + sent_tokens]

\* The loop of line 122 over sentences[lo..hi], in order, from loop state st
\* (the range is halved, and the state after the first half is computed before
\* the second half starts, so that long texts are evaluated at small depth).
RECURSIVE ChunkLoop(_, _, _, _, _, _)
ChunkLoop(sentences, lo, hi, st, chunk_size, overlap) ==
  IF lo > hi THEN st
  ELSE IF lo = hi THEN ChunkStep(st, sentences[lo], chunk_size, overlap)
  ELSE LET mid == (lo + hi) \div 2
       IN CHOOSE r \in { ChunkLoop(sentences, mid + 1, hi, left, chunk_size, overlap) :
                           left \in { ChunkLoop(sentences, lo, mid, st, chunk_size, overlap) } } :
            TRUE

\* chunk_text(text, chunk_size, overlap): the loop, then the last chunk (lines
\* 153-158).
ChunkText(text, chunk_size, overlap) ==
  LET st == ChunkLoop(text, 1, Len(text),
                      [chunks |-> <<>>, current_chunk |-> <<>>, current_tokens |-> 0],
                      chunk_size, overlap)
  IN IF st.current_chunk # <<>> THEN Append(st.chunks, MakeChunk(st.current_chunk))
     ELSE st.chunks

\* Faulty variant: a text of blank units only is kept as one chunk.
chunk_textKeepsBlank(text) ==
  IF text # <<>> /\ \A i \in 1..Len(text) : text[i].tok = 0
  THEN << MakeChunk(text) >>
  ELSE ChunkText(text, CHUNK_SIZE, CHUNK_OVERLAP)

\* chunk_text with the defaults of its signature, as process_document calls it.
chunk_text(text) == ChunkText(text, CHUNK_SIZE, CHUNK_OVERLAP)

\* ---------------------------------------------------------------- embedding
\* batch_size of generate_embeddings (line 169).
batch_size == 100

Min(a, b) == IF a < b THEN a ELSE b

\* openai_client.embeddings.create for one batch: response.data holds one item
\* per input of the batch, in the order of the batch.  A text is a chunk content
\* (a sequence of units); the oracle reads its first unit.
EmbeddingsCreate(batch) == [k \in 1..Len(batch) |-> EmbedSentence(batch[k][1])]

\* Faulty variant: the vectors of a batch are put in front of those collected.
RECURSIVE EmbedLoopPrepend(_, _, _, _, _)
EmbedLoopPrepend(texts, i, all_embeddings, calls, failing) ==
  IF i >= Len(texts)
  THEN [raised |-> FALSE, embeddings |-> all_embeddings, calls |-> calls]
  ELSE IF calls + 1 = failing
  THEN [raised |-> TRUE, embeddings |-> <<>>, calls |-> calls + 1]
  ELSE LET batch == SubSeq(texts, i + 1, Min(i + batch_size, Len(texts)))
       IN EmbedLoopPrepend(texts, i + batch_size, EmbeddingsCreate(batch) \o all_embeddings,
                           calls + 1, failing)

\* The loop of lines 172-179 from offset i on.  `failing` is the number of the
\* service call that raises (0: none does); the exception leaves the function,
\* which then returns nothing.
RECURSIVE EmbedLoop(_, _, _, _, _)
EmbedLoop(texts, i, all_embeddings, calls, failing) ==
  IF i >= Len(texts)
  THEN [raised |-> FALSE, embeddings |-> all_embeddings, calls |-> calls]
  ELSE IF calls + 1 = failing
  THEN [raised |-> TRUE, embeddings |-> <<>>, calls |-> calls + 1]
  ELSE LET batch == SubSeq(texts, i + 1, Min(i + batch_size, Len(texts)))
       IN EmbedLoop(texts, i + batch_size, all_embeddings \o EmbeddingsCreate(batch),
                    calls + 1, failing)

\* Faulty variant: a failing service call ends the loop, and the vectors of the
\* batches before it are returned.
generate_embeddings_callPartial(texts, failing) ==
  LET r == EmbedLoop(texts, 0, <<>>, 0, failing)
  IN IF r.raised
     THEN [raised |-> FALSE, calls |-> r.calls,
           embeddings |-> EmbeddingsCreate(SubSeq(texts, 1, (failing - 1) * batch_size))]
     ELSE r

\* generate_embeddings with the outcome of its service calls given.
generate_embeddings_call(texts, failing) == EmbedLoop(texts, 0, <<>>, 0, failing)

\* generate_embeddings when no service call raises.
generate_embeddings(texts) == generate_embeddings_call(texts, 0).embeddings

\* chunk_texts of line 229.
ChunkTexts(chunks_data) == [i \in 1..Len(chunks_data) |-> chunks_data[i].conteudo]

\* The number of service calls that embedding the chunks of `text` takes.
EmbedCalls(text) == generate_embeddings_call(ChunkTexts(chunk_text(text)), 0).calls

\* ------------------------------------------------ binary floating point
\* The cost of a chat (rag_engine.py, lines 215-217 / 281-283) and the
\* similarities are IEEE 754 doubles: every operation is rounded to the
\* nearest double, ties to even, and round(x, n) and f"{x:.2f}" round the
\* double's exact value, not the decimal number it stands for.  A natural
\* number is the sequence of its digits to the base 2^15, least significant
\* first; a double is [m, e] of value m * 2^e with a mantissa m of 53 bits (no
\* digit for zero).
Limb == 2 ^ 15

RECURSIVE NatDigits(_)
NatDigits(n) == IF n = 0 THEN <<>> ELSE <<n % Limb>> \o NatDigits(n \div Limb)

RECURSIVE NatToInt(_)
NatToInt(a) == IF a = <<>> THEN 0 ELSE a[1] + Limb * NatToInt(Tail(a))

RECURSIVE NatTrim(_)
NatTrim(a) ==
  IF a = <<>> \/ a[Len(a)] # 0 THEN a ELSE NatTrim(SubSeq(a, 1, Len(a) - 1))

RECURSIVE Pow2(_)
Pow2(k) == IF k = 0 THEN 1 ELSE 2 * Pow2(k - 1)

RECURSIVE IntBitLen(_)
IntBitLen(n) == IF n = 0 THEN 0 ELSE 1 + IntBitLen(n \div 2)

NatBitLen(a) == IF a = <<>> THEN 0 ELSE 15 * (Len(a) - 1) + IntBitLen(a[Len(a)])

RECURSIVE NatAdd(_, _, _)
NatAdd(a, b, carry) ==
  IF a = <<>> /\ b = <<>> THEN (IF carry = 0 THEN <<>> ELSE <<carry>>)
  ELSE LET x == IF a = <<>> THEN 0 ELSE a[1]
           y == IF b = <<>> THEN 0 ELSE b[1]
           t == x + y + carry
       IN <<t % Limb>> \o NatAdd(IF a = <<>> THEN a ELSE Tail(a),
                                 IF b = <<>> THEN b ELSE Tail(b), t \div Limb)

\* a times the digit d.
RECURSIVE NatMulDigit(_, _, _)
NatMulDigit(a, d, carry) ==
  IF a = <<>> THEN (IF carry = 0 THEN <<>> ELSE <<carry>>)
  ELSE LET t == a[1] * d + carry
       IN <<t % Limb>> \o NatMulDigit(Tail(a), d, t \div Limb)

RECURSIVE NatMul(_, _)
NatMul(a, b) ==
  IF b = <<>> THEN <<>>
  ELSE NatTrim(NatAdd(NatMulDigit(a, b[1], 0), <<0>> \o NatMul(a, Tail(b)), 0))

\* Quotient and remainder of the digits a[1..k] (after `rem`) by d < 2^16.
RECURSIVE NatDivMod(_, _, _, _)
NatDivMod(a, k, rem, d) ==
  IF k = 0 THEN [q |-> <<>>, r |-> rem]
  ELSE LET t == rem * Limb + a[k]
           lower == NatDivMod(a, k - 1, t % d, d)
       IN [q |-> Append(lower.q, t \div d), r |-> lower.r]

\* a * 2^k, and a / 2^k with `sticky` telling whether bits were lost.
NatShiftLeft(a, k) ==
  [i \in 1..(k \div 15) |-> 0] \o NatMulDigit(a, Pow2(k % 15), 0)

NatShiftRight(a, k) ==
  LET j == IF k \div 15 < Len(a) THEN k \div 15 ELSE Len(a)
      high == SubSeq(a, j + 1, Len(a))
      qr == NatDivMod(high, Len(high), 0, Pow2(k % 15))
  IN [q |-> NatTrim(qr.q),
      sticky |-> qr.r # 0 \/ \E i \in 1..j : a[i] # 0]

\* The double nearest to (n + a fraction) * 2^e, the fraction being nonzero
\* exactly when `sticky`: round to nearest, ties to even.
FloatRound(n, sticky, e) ==
  LET a == NatTrim(n)
      drop == NatBitLen(a) - 53
  IN IF drop <= 0 THEN [m |-> a, e |-> e]
     ELSE LET cut == NatShiftRight(a, drop - 1)
              half == NatDivMod(cut.q, Len(cut.q), 0, 2)
              kept == NatTrim(half.q)
              up == half.r = 1 /\ (sticky \/ cut.sticky \/ kept[1] % 2 = 1)
              r == IF up THEN NatAdd(kept, <<1>>, 0) ELSE kept
          IN IF NatBitLen(r) = 54
             THEN [m |-> NatShiftRight(r, 1).q, e |-> e + drop + 1]
             ELSE [m |-> r, e |-> e + drop]

\* int * float, float / 1_000_000 and float + float.
FloatMulInt(n, x) == FloatRound(NatMul(x.m, NatDigits(n)), FALSE, x.e)

FloatDivMillion(x) ==
  LET n == NatShiftLeft(x.m, 75)
      by1000 == NatDivMod(n, Len(n), 0, 1000)
      by1000000 == NatDivMod(by1000.q, Len(by1000.q), 0, 1000)
  IN FloatRound(by1000000.q, by1000.r # 0 \/ by1000000.r # 0, x.e - 75)

FloatAdd(x, y) ==
  IF x.m = <<>> THEN y
  ELSE IF y.m = <<>> THEN x
  ELSE LET e == IF x.e < y.e THEN x.e ELSE y.e
       IN FloatRound(NatAdd(NatShiftLeft(x.m, x.e - e), NatShiftLeft(y.m, y.e - e), 0),
                     FALSE, e)

\* The literals 0.15 = 0x1.3333333333333p-3 and 0.60 = 0x1.3333333333333p-1
\* (mantissa 0x13333333333333, digits to the base 2^15).
Float015 == [m |-> <<13107, 26214, 19660, 153>>, e |-> 0 - 55]
Float060 == [m |-> <<13107, 26214, 19660, 153>>, e |-> 0 - 53]

\* The double nearest to milli / 1000.
FloatOfMilli(milli) ==
  LET n == NatShiftLeft(NatDigits(milli), 75)
      qr == NatDivMod(n, Len(n), 0, 1000)
  IN FloatRound(qr.q, qr.r # 0, 0 - 75)

\* A double x >= 0 rounded to a whole number of 1/units, as round(x, n) and
\* the format .nf do it: the exact value of x in halves of 1/units is h and a
\* fraction; an even h rounds down, an odd h rounds up unless x is exactly
\* the tie, which goes to the even side.
FloatRoundTo(x, units) ==
  LET cut == NatShiftRight(NatMul(x.m, NatDigits(2 * units)), 0 - x.e)
      h == NatToInt(cut.q)
      q == h \div 2
  IN IF h % 2 = 0 THEN q
     ELSE IF cut.sticky \/ q % 2 = 1 THEN q + 1 ELSE q

round6(x) == FloatRoundTo(x, 1000000)

\* ------------------------------------------------------------ similarity
Vecs == {<<1, 1>>, <<0, 1>>, <<1, 3>>, <<1, 0>>}
Dot(a, b) == a[1] * b[1] + a[2] * b[2]

\* 1 - cosine distance, in thousandths, rounded toward zero:
\* the k with (k/1000)^2 <= dot^2 / (|q|^2 |e|^2) < ((k+1)/1000)^2.
RECURSIVE ISqrtFloor(_, _, _, _)
ISqrtFloor(num, den, lo, hi) ==
  IF lo = hi THEN lo
  ELSE LET mid == (lo + hi + 1) \div 2
       IN IF mid * mid * den <= num THEN ISqrtFloor(num, den, mid, hi)
          ELSE ISqrtFloor(num, den, lo, mid - 1)

CosMilli(q, e) ==
  LET d == Dot(q, e)
      n == Dot(q, q) * Dot(e, e)
      m == ISqrtFloor(1000000 * d * d, n, 0, 1000)
  IN IF d < 0 THEN 0 - m ELSE m

SimTable == [q \in Queries \cup {QueryC}, e \in Vecs |-> CosMilli(q, e)]
Similarity(q, e) == SimTable[q, e]

\* ----------------------------------------------------------------- state
VARIABLES
  documents,   \* table documents: Docs -> row (exists = FALSE: no such row)
  chunks,      \* table chunks, grouped by documento_id: Docs -> sequence of rows
  pc,          \* position of the background task process_document_task(d)
  sess,        \* what process_document(d) holds in its session and locals
  attempts,    \* number of process_document runs started for d
  upd,         \* the update_document requests in flight: Patches -> request
  finCall,     \* the FinancialAnalyzer.analyze_document call made in this step
  finErr,      \* the exception the financial step swallowed in this step
  lastSearch,  \* the search_similar_chunks call made in this step and its response
  messages,    \* table messages, in commit order
  chat,        \* the chat request in flight (or the last one ended)
  served,      \* number of chat requests received
  fn,          \* the application of a function under study: its inputs and result
  conv_table,  \* table conversations: the columns that change (titulo, updated_at)
  title_tasks, \* the _generate_title coroutines started, in the order they were started
  selected,    \* the case of the Telegram user's last successful /selecionar (0: none)
  commands,    \* the /selecionar commands being handled, in the order they started
  processos    \* table processos: the row of each case id

vars == <<documents, chunks, pc, sess, attempts, upd, finCall, finErr, lastSearch,
          messages, chat, served, fn, conv_table, title_tasks, selected, commands,
          processos>>
sideVars == <<conv_table, title_tasks, selected, commands, processos>>
lifeVars == <<documents, chunks, pc, sess, attempts, upd, finCall, finErr, lastSearch, fn>>
chatVars == <<messages, chat, served>>
lifeVarsNoFn == <<documents, chunks, pc, sess, attempts, upd, finCall, finErr, lastSearch>>

NoDoc == [exists |-> FALSE, processo_id |-> 0, tipo |-> NULL, titulo |-> NULL,
          arquivo |-> <<>>, status |-> NULL, texto_extraido |-> <<>>,
          error_message |-> NULL]
\* tipo, titulo, processo_id and arquivo are those of the Document object the task
\* loaded: arquivo is the stored file its arquivo_original names, which the
\* task downloads (line 202) whatever happens to the row meanwhile.
NoSess == [tipo |-> NULL, titulo |-> NULL, processo_id |-> 0, arquivo |-> <<>>,
           texto |-> <<>>, chunks_data |-> <<>>,
           pending |-> <<>>, embed_calls |-> 0, failing |-> 0, exc |-> NULL,
           raised |-> NULL]
\* The update_document requests in flight at once.  A request holds the
\* payload (new_tipo, new_titulo) and the Document object it loaded
\* (processo_id, old_tipo, old_titulo).
MaxPatches == 2
Patches == 1..MaxPatches
NoUpd == [pc |-> "idle", doc |-> 0, processo_id |-> 0, new_tipo |-> NULL,
          new_titulo |-> NULL, old_tipo |-> NULL, old_titulo |-> NULL]
NoPatch == [r \in Patches |-> NoUpd]
NoCall == [doc |-> 0, by |-> NULL]
\* exc names the statement of the financial step that raised: the SELECT of
\* the case ("lookup"), processo.contexto ("contexto", an AttributeError: class
\* Processo of models.py has no such attribute) or the call of
\* analyze_document ("call", a TypeError: it takes no processo_contexto).
NoErr == [doc |-> 0, by |-> NULL, exc |-> NULL]
NoSearch == [active |-> FALSE, error |-> FALSE, query_embedding |-> <<>>,
             processo_id |-> 0, rows |-> <<>>]
\* history is the conversation_history the handler loaded, prompt the messages
\* list built for the generation call (<<>> before it is built), exc the call
\* that raised, received the upstream units read from the generation stream.
NoChat == [kind |-> "none", conv |-> 0, query |-> NULL, pc |-> "idle", rows |-> <<>>,
           processo_contexto |-> NULL,
           full_answer |-> <<>>, total_prompt_tokens |-> 0, total_completion_tokens |-> 0,
           deltas |-> 0, emitted |-> <<>>, rag_result_data |-> <<>>,
           history |-> <<>>, prompt |-> <<>>, exc |-> NULL, received |-> <<>>]

NoFn == [op |-> "none"]
\* A text that the program cuts or strips is the sequence of the code points
\* of its characters; the nullable column Conversation.titulo holds <<>>
\* (NULL) or <<text>>.  "Nova conversa":
NovaConversa == <<78, 111, 118, 97, 32, 99, 111, 110, 118, 101, 114, 115, 97>>
NoConv == [exists |-> FALSE, processo_id |-> 0, canal |-> NULL, titulo |-> <<>>,
           updated_at |-> 0]

\* The ids a conversation row may have.  A new row gets a new id (the uuid4
\* default of models.py 146), here the number after the last one given; a
\* deleted row keeps its columns in conv_table, as the object a handler loaded.
MaxConvs == 6
Convs == 1..MaxConvs

\* The columns of a conversation that never change.
conversations ==
  [c \in Convs |-> [processo_id |-> conv_table[c].processo_id,
                    canal |-> conv_table[c].canal]]

\* The conversations stored before the requests of the model: 1, 2 and 4 are
\* web conversations of cases 1, 2 and 3 (case 3 has no document), 3 is the
\* Telegram conversation of case 2.
StoredConvs == {1, 2, 3, 4}
CasoDe(c) == CASE c = 1 -> 1 [] c \in {2, 3} -> 2 [] OTHER -> 3
CanalDe(c) == IF c = 3 THEN "telegram" ELSE "web"

\* The last id given to a conversation row, and the id of the next row.
LastConv ==
  IF \A c \in Convs : conv_table[c].updated_at = 0 THEN 0
  ELSE CHOOSE c \in Convs :
         /\ conv_table[c].updated_at # 0
         /\ \A x \in Convs : x > c => conv_table[x].updated_at = 0
NewId == LastConv + 1

\* The cases.  A row of table processos: status, titulo, updated_at (default
\* and onupdate utcnow, models.py 48); a deleted row keeps its updated_at, so
\* that its id is not given again.  "caso" and "novo" are the titles of cases.
MaxProcessos == 4
ProcessoIds == 1..MaxProcessos
Caso == <<99, 97, 115, 111>>
Novo == <<110, 111, 118, 111>>
NoProcesso == [exists |-> FALSE, status |-> NULL, titulo |-> <<>>, updated_at |-> 0]

\* The cases stored before the requests of the model: every case a document or
\* a conversation belongs to.  Cases 1 and 2 are active and case 1 was updated
\* last; case 3 is archived.
TodosProcessos == Casos \cup {3}
StoredProcesso(p) ==
  [exists |-> TRUE, status |-> IF p = 3 THEN "arquivado" ELSE "ativo",
   titulo |-> Caso, updated_at |-> 4 - p]
StoredProcessos ==
  [p \in ProcessoIds |-> IF p \in TodosProcessos THEN StoredProcesso(p) ELSE NoProcesso]

\* The case row of id p exists.
Existe(p) == p \in ProcessoIds /\ processos[p].exists

\* Every case exists and no conversation exists.
NoSide ==
  /\ conv_table = [c \in Convs |-> NoConv]
  /\ title_tasks = <<>>
  /\ selected = 0
  /\ commands = <<>>
  /\ processos = StoredProcessos

\* finCall, finErr and lastSearch describe the step being taken: every step
\* that makes no such call clears them.
Quiet == finCall' = NoCall /\ finErr' = NoErr /\ lastSearch' = NoSearch

Init ==
  /\ documents = [d \in Docs |-> NoDoc]
  /\ chunks = [d \in Docs |-> <<>>]
  /\ pc = [d \in Docs |-> "none"]
  /\ sess = [d \in Docs |-> NoSess]
  /\ attempts = [d \in Docs |-> 0]
  /\ upd = NoPatch
  /\ finCall = NoCall
  /\ finErr = NoErr
  /\ lastSearch = NoSearch
  /\ messages = <<>>
  /\ chat = NoChat
  /\ served = 0
  /\ fn = NoFn
  /\ NoSide

SetDoc(d, row) == [documents EXCEPT ![d] = row]

\* ------------------------------------------------------- upload_document
\* Stores the file, inserts the row with status uploaded and commits (line
\* 140), refreshes the row (line 141), and queues process_document_task for it
\* (line 144).  When the refresh raises, the request fails with the row stored
\* and no task queued for it.  Document ids are never reused.
\* The title of the form (line 129) is the one the user gives document d.
Titulo(d) == <<"Documento", d>>

Upload(d, caso, tipo, arquivo, refreshOk) ==
  /\ pc[d] = "none"
  /\ Existe(caso)
  /\ documents' = SetDoc(d, [exists |-> TRUE, processo_id |-> caso, tipo |-> tipo,
                             titulo |-> Titulo(d),
                             arquivo |-> arquivo, status |-> "uploaded",
                             texto_extraido |-> <<>>, error_message |-> NULL])
  /\ pc' = [pc EXCEPT ![d] = IF refreshOk THEN "queued" ELSE "unqueued"]
  /\ Quiet
  /\ UNCHANGED <<chunks, sess, attempts, upd, messages, chat, served, fn, sideVars>>

\* ------------------------------------------------------ process_document
\* Lines 190-193: the task loads the row into its session, and returns when
\* it is gone.  The SELECT is outside the try block: when it raises, the
\* exception goes straight to the handler of process_document_task.
IngestLoad(d, loadOk) ==
  /\ pc[d] = "queued"
  /\ attempts' = [attempts EXCEPT ![d] = @ + 1]
  /\ IF ~loadOk
     THEN /\ sess' = [sess EXCEPT ![d] = [NoSess EXCEPT !.exc = "load", !.raised = "load"]]
          /\ pc' = [pc EXCEPT ![d] = "taskexcept"]
     ELSE IF documents[d].exists
     THEN /\ sess' = [sess EXCEPT ![d] = [NoSess EXCEPT
                                            !.tipo = documents[d].tipo,
                                            !.titulo = documents[d].titulo,
                                            !.processo_id = documents[d].processo_id,
                                            !.arquivo = documents[d].arquivo]]
          /\ pc' = [pc EXCEPT ![d] = "loaded"]
     ELSE /\ pc' = [pc EXCEPT ![d] = "done"]
          /\ UNCHANGED sess
  /\ Quiet
  /\ UNCHANGED <<documents, chunks, upd, messages, chat, served, fn, sideVars>>

\* The finally block (lines 273-276) runs while exception `raised` propagates:
\* when the cleanup raises too, its exception replaces the one in flight.
AfterCleanup(raised, cleanupOk) == IF cleanupOk THEN raised ELSE "cleanup"

\* The handler of lines 278-282: status error, error_message = str(e), commit
\* (which also writes a texto_extraido still pending in the session), re-raise.
\* When the row is gone the commit raises instead and nothing is written.
ExceptHandler(d, exc, texto) ==
  IF documents[d].exists
  THEN SetDoc(d, [documents[d] EXCEPT
                    !.status = "error",
                    !.error_message = exc,
                    !.texto_extraido = IF texto # <<>> THEN texto ELSE @])
  ELSE documents

\* The exception that leaves the handler of lines 278-282: the one it re-raises,
\* or the one of its own commit when that commit raises.
Reraised(exc, recordOk) == IF recordOk THEN exc ELSE "record"

\* Lines 195-198: status processing, committed. The commit is inside the try
\* block of line 195: when it raises (the database fails, or the row was
\* deleted since it was loaded) the handler of lines 278-282 commits status
\* error with the message of that exception (unless its commit raises too) and
\* re-raises; no temp file exists yet and the finally block is not entered.
IngestStart(d, commitOk, recordOk) ==
  /\ pc[d] = "loaded"
  /\ IF documents[d].exists /\ commitOk
     THEN /\ documents' = SetDoc(d, [documents[d] EXCEPT !.status = "processing"])
          /\ pc' = [pc EXCEPT ![d] = "processing"]
          /\ UNCHANGED sess
     ELSE /\ documents' = IF recordOk THEN ExceptHandler(d, "start", <<>>) ELSE documents
          /\ sess' = [sess EXCEPT ![d] = [NoSess EXCEPT !.exc = Reraised("start", recordOk),
                                                        !.raised = "start"]]
          /\ pc' = [pc EXCEPT ![d] = "taskexcept"]
  /\ Quiet
  /\ UNCHANGED <<chunks, attempts, upd, messages, chat, served, fn, sideVars>>

\* Faulty variant: the positions are counted from 1.
BuildChunksFromOne(d, tipo, titulo, chunks_data, embeddings) ==
  [i \in 1..(IF Len(chunks_data) < Len(embeddings) THEN Len(chunks_data) ELSE Len(embeddings)) |->
     [documento_id |-> d, posicao |-> i, conteudo |-> chunks_data[i].conteudo,
      token_count |-> chunks_data[i].token_count, embedding |-> embeddings[i],
      doc_tipo |-> tipo, doc_titulo |-> titulo]]

\* The Chunk objects of lines 233-247, added to the session (not yet flushed);
\* doc_tipo and doc_titulo are the metadata snapshot of lines 240-245, taken
\* from the Document object the task holds.
BuildChunks(d, tipo, titulo, chunks_data, embeddings) ==
  [i \in 1..(IF Len(chunks_data) < Len(embeddings) THEN Len(chunks_data) ELSE Len(embeddings)) |->
     [documento_id |-> d, posicao |-> i - 1, conteudo |-> chunks_data[i].conteudo,
      token_count |-> chunks_data[i].token_count, embedding |-> embeddings[i],
      doc_tipo |-> tipo, doc_titulo |-> titulo]]

\* Lines 200-247 when no call raises: download, temp file, extraction (or
\* transcription), chunking, embedding and the construction of the Chunk
\* objects.  All of it is local to the task: it works on the file it
\* downloaded and on the Document object it loaded, also when the row has been
\* deleted since (the storing commit raises then).  generate_embeddings is called
\* only when there is a chunk (the return of line 226 comes first); `failing`
\* is the service call of it that raises, embed_calls counts its service calls.
IngestPrepare(d, failing) ==
  /\ pc[d] = "processing"
  /\ LET text == sess[d].arquivo
         chunks_data == chunk_text(text)
         chunk_texts == ChunkTexts(chunks_data)
         result == IF chunks_data = <<>>
                   THEN [raised |-> FALSE, embeddings |-> <<>>, calls |-> 0]
                   ELSE generate_embeddings_call(chunk_texts, failing)
     IN /\ chunks_data = <<>> => failing = 0
        /\ failing <= EmbedCalls(text)
        /\ ~result.raised
        /\ sess' = [sess EXCEPT ![d].texto = <<text>>,
                                ![d].chunks_data = chunks_data,
                                ![d].embed_calls = result.calls,
                                ![d].failing = failing,
                                ![d].pending =
                                   IF chunks_data = <<>> THEN <<>>
                                   ELSE BuildChunks(d, sess[d].tipo, sess[d].titulo, chunks_data,
                                                    result.embeddings)]
  /\ pc' = [pc EXCEPT ![d] = "ready"]
  /\ Quiet
  /\ UNCHANGED <<documents, chunks, attempts, upd, messages, chat, served, fn, sideVars>>

\* Lines 200-247 when the call of `stage` raises, the finally block (there is
\* no temp file yet when the download raises) and the handler of lines 278-282.
\* texto_extraido was assigned (line 219) once extraction had returned.
\* recordOk says whether the commit of the handler succeeds; when it raises,
\* the transaction is rolled back and nothing is written.  For the embedding
\* stage `failing` is the service call of generate_embeddings that raises (0
\* for the other stages).
IngestFail(d, stage, failing, cleanupOk, recordOk) ==
  /\ pc[d] = "processing"
  /\ stage = "download" => cleanupOk
  /\ IF stage = "embed"
     THEN /\ failing \in 1..EmbedCalls(sess[d].arquivo)
          /\ generate_embeddings_call(ChunkTexts(chunk_text(sess[d].arquivo)),
                                      failing).raised
     ELSE failing = 0
  /\ LET exc == AfterCleanup(stage, cleanupOk)
         texto == IF stage \in {"chunk", "embed"} THEN <<sess[d].arquivo>> ELSE <<>>
     IN /\ documents' = IF recordOk THEN ExceptHandler(d, exc, texto) ELSE documents
        /\ sess' = [sess EXCEPT ![d] = [NoSess EXCEPT !.exc = Reraised(exc, recordOk),
                                                      !.raised = stage,
                                                      !.failing = failing]]
  /\ pc' = [pc EXCEPT ![d] = "taskexcept"]
  /\ Quiet
  /\ UNCHANGED <<chunks, attempts, upd, messages, chat, served, fn, sideVars>>

\* Faulty variant: the pending Chunk objects are dropped by the commit.
CommitChunksNone(existing, pending) == existing

\* Faulty variant: the last pending Chunk is flushed by a later transaction.
CommitChunksPartial(existing, pending) ==
  existing \o (IF pending = <<>> THEN <<>> ELSE SubSeq(pending, 1, Len(pending) - 1))

\* What the commit of line 225 / 250 makes visible of the pending Chunk objects.
CommitChunks(existing, pending) == existing \o pending

\* Lines 224-225 (no chunks) and 249-250: status processed, the extracted text
\* and every pending Chunk become visible in one commit.
IngestCommit(d) ==
  /\ pc[d] = "ready"
  /\ documents[d].exists
  /\ documents' = SetDoc(d, [documents[d] EXCEPT !.status = "processed",
                                                !.texto_extraido = sess[d].texto])
  /\ chunks' = [chunks EXCEPT ![d] = CommitChunks(@, sess[d].pending)]
  /\ sess' = [sess EXCEPT ![d].texto = <<>>, ![d].pending = <<>>]
  /\ pc' = [pc EXCEPT ![d] = "stored"]
  /\ Quiet
  /\ UNCHANGED <<attempts, upd, messages, chat, served, fn, sideVars>>

\* The same commit raising (the database fails, or the row was deleted
\* meanwhile): the transaction is rolled back, the finally block runs, and the
\* handler of lines 278-282 commits the error (unless its commit raises too).
IngestCommitFail(d, cleanupOk, recordOk) ==
  /\ pc[d] = "ready"
  /\ LET exc == AfterCleanup("store", cleanupOk)
     IN /\ documents' = IF recordOk THEN ExceptHandler(d, exc, <<>>) ELSE documents
        /\ sess' = [sess EXCEPT ![d] = [NoSess EXCEPT !.exc = Reraised(exc, recordOk),
                                                      !.raised = "store"]]
  /\ pc' = [pc EXCEPT ![d] = "taskexcept"]
  /\ Quiet
  /\ UNCHANGED <<chunks, attempts, upd, messages, chat, served, fn, sideVars>>

\* Faulty variant: the exception of the financial step reaches the outer handler.
FinancialFailedFlips(d) ==
  SetDoc(d, [documents[d] EXCEPT !.status = "error", !.error_message = "financial"])

\* The handler of an exception of the financial step (lines 270-271 of
\* process_document, 259-260 of update_document): it prints and goes on.
FinancialFailed(d) == documents

\* scalar_one_or_none() of the SELECT of a case by its id: the row (its id), or
\* 0 for None when the case was deleted meanwhile.
ProcessoOf(processo_id) == IF Existe(processo_id) THEN processo_id ELSE 0

\* processo.contexto if processo else None (document_processor.py 262,
\* document_routes.py 251, chat_routes.py 303 and 414).  class Processo
\* (models.py 37-57) has no attribute contexto: for a row that was found the
\* expression raises AttributeError; it gives None only for no row.
AttributeError == "AttributeError"
ContextoOf(processo) == IF processo # 0 THEN AttributeError ELSE NULL

\* The financial step (document_processor.py 254-271, document_routes.py
\* 244-260) for document d of case processo_id, run by `by`: the SELECT of the
\* case raises, or finds the row and processo.contexto raises, or finds no row
\* and analyze_document is called with the keyword processo_contexto, which
\* its signature (financial_analyzer.py 128-132) does not have: the call
\* raises TypeError.  Whatever is raised, the handler prints it and goes on.
FinancialStep(d, processo_id, by, lookupOk) ==
  LET exc == IF ~lookupOk THEN "lookup"
             ELSE IF ContextoOf(ProcessoOf(processo_id)) = AttributeError THEN "contexto"
             ELSE "call"
  IN /\ finCall' = IF exc = "call" THEN [doc |-> d, by |-> by] ELSE NoCall
     /\ finErr' = [doc |-> d, by |-> by, exc |-> exc]
     /\ documents' = FinancialFailed(d)

\* Line 253 of process_document, reached after the storing commit of line 250
\* (the no-chunk path has returned at line 226): the category of the Document
\* object loaded at line 190 is a financial one.
NeedsFinancial(d) == sess[d].chunks_data # <<>> /\ sess[d].tipo \in FinancialTypes

\* Lines 253-271: the financial step of process_document.
IngestFinancial(d, lookupOk) ==
  /\ pc[d] = "stored"
  /\ NeedsFinancial(d)
  /\ FinancialStep(d, sess[d].processo_id, "process_document", lookupOk)
  /\ pc' = [pc EXCEPT ![d] = "analyzed"]
  /\ lastSearch' = NoSearch
  /\ UNCHANGED <<chunks, sess, attempts, upd, messages, chat, served, fn, sideVars>>

\* Lines 273-276: the finally block, entered after the financial step, or
\* straight after the storing commit when there is no financial step (the
\* return of line 226, or a category that is not financial).
IngestAfterCommit(d, cleanupOk) ==
  /\ pc[d] = "analyzed" \/ (pc[d] = "stored" /\ ~NeedsFinancial(d))
  /\ IF cleanupOk
     THEN /\ pc' = [pc EXCEPT ![d] = "done"]
          /\ sess' = [sess EXCEPT ![d] = NoSess]
     ELSE /\ pc' = [pc EXCEPT ![d] = "except"]
          /\ sess' = [sess EXCEPT ![d] = [NoSess EXCEPT !.exc = "cleanup"]]
  /\ Quiet
  /\ UNCHANGED <<documents, chunks, attempts, upd, messages, chat, served, fn, sideVars>>

\* Lines 278-282 for the exception that left the finally block after the
\* storing commit.
IngestExcept(d, recordOk) ==
  /\ pc[d] = "except"
  /\ documents' = IF recordOk THEN ExceptHandler(d, sess[d].exc, sess[d].texto)
                  ELSE documents
  /\ sess' = [sess EXCEPT ![d].exc = Reraised(@, recordOk)]
  /\ pc' = [pc EXCEPT ![d] = "taskexcept"]
  /\ Quiet
  /\ UNCHANGED <<chunks, attempts, upd, messages, chat, served, fn, sideVars>>

\* process_document_task, lines 155-162: the handler of the re-raised exception.
\* When its query or its commit raises, nothing is written and the exception
\* leaves the background task.  Either way no exception is in flight once the
\* task has ended.
TaskExcept(d, recordOk) ==
  /\ pc[d] = "taskexcept"
  /\ documents' =
       IF documents[d].exists /\ recordOk
       THEN SetDoc(d, [documents[d] EXCEPT !.status = "error",
                                          !.error_message = sess[d].exc])
       ELSE documents
  /\ sess' = [sess EXCEPT ![d].exc = NULL]
  /\ pc' = [pc EXCEPT ![d] = "done"]
  /\ Quiet
  /\ UNCHANGED <<chunks, attempts, upd, messages, chat, served, fn, sideVars>>

\* ------------------------------------------------------- update_document
\* Lines 209-232: the fields of the payload that are set, and the jsonb patch
\* of the metadata snapshot of every chunk of the document.
PatchChunks(rows, new_tipo, new_titulo) ==
  [i \in 1..Len(rows) |->
     [rows[i] EXCEPT !.doc_tipo = IF new_tipo = NULL THEN @ ELSE new_tipo,
                     !.doc_titulo = IF new_titulo = NULL THEN @ ELSE new_titulo]]

\* The title a PATCH request gives a document.
NovoTitulo == <<"Novo", 0>>

\* A request is in flight; the slot the next request takes.
PatchInFlight == \E r \in Patches : upd[r].pc # "idle"
FreePatch == CHOOSE r \in Patches :
               upd[r].pc = "idle" /\ \A x \in Patches : x < r => upd[x].pc # "idle"

\* Lines 191-205: load the row (404 when absent), remember old_tipo, return at
\* once on an empty payload; otherwise the request goes on to write.  `outro`
\* says that the third field of the payload, data_referencia, is set.
UpdateStart(d, new_tipo, new_titulo, outro) ==
  /\ \E r \in Patches : upd[r].pc = "idle"
  /\ documents[d].exists
  /\ upd' = IF new_tipo = NULL /\ new_titulo = NULL /\ ~outro THEN upd
            ELSE [upd EXCEPT ![FreePatch] =
                    [pc |-> "loaded", doc |-> d,
                     processo_id |-> documents[d].processo_id,
                     new_tipo |-> new_tipo, new_titulo |-> new_titulo,
                     old_tipo |-> documents[d].tipo,
                     old_titulo |-> documents[d].titulo]]
  /\ Quiet
  /\ UNCHANGED <<documents, chunks, pc, sess, attempts, messages, chat, served, fn, sideVars>>

\* Lines 207-233: the set fields are assigned to the loaded object and
\* flushed (the UPDATE writes the columns whose value differs from the loaded
\* one; it raises when the row was deleted meanwhile), the metadata of the
\* chunk rows stored now is patched with the set fields, and all is
\* committed.  When the flush or the commit raises nothing is stored and the
\* request fails.
UpdateCommit(r, commitOk) ==
  /\ upd[r].pc = "loaded"
  /\ LET u == upd[r]
         d == u.doc
     IN IF commitOk /\ documents[d].exists
        THEN /\ upd' = [upd EXCEPT ![r].pc = "committed"]
             /\ documents' = SetDoc(d, [documents[d] EXCEPT
                  !.tipo = IF u.new_tipo = NULL \/ u.new_tipo = u.old_tipo
                           THEN @ ELSE u.new_tipo,
                  !.titulo = IF u.new_titulo = NULL \/ u.new_titulo = u.old_titulo
                             THEN @ ELSE u.new_titulo])
             /\ chunks' = [chunks EXCEPT ![d] = PatchChunks(@, u.new_tipo, u.new_titulo)]
        ELSE /\ upd' = [upd EXCEPT ![r] = NoUpd]
             /\ UNCHANGED <<documents, chunks>>
  /\ Quiet
  /\ UNCHANGED <<pc, sess, attempts, messages, chat, served, fn, sideVars>>

\* The condition of lines 238-243.
ShouldAnalyze(new_tipo, old_tipo, status) ==
  /\ new_tipo # NULL
  /\ new_tipo \in FinancialTypes
  /\ old_tipo \notin FinancialTypes
  /\ status = "processed"

\* Lines 234-247: refresh the row and test the condition; when it holds the
\* handler enters the financial step and awaits the SELECT of the case,
\* otherwise it returns the document (line 262).  The refresh raises when the
\* row was deleted meanwhile, and may raise as any database call: the request
\* then fails with the update committed and the financial step not run.
UpdateFinish(r, refreshOk) ==
  /\ upd[r].pc = "committed"
  /\ documents[upd[r].doc].exists \/ ~refreshOk
  /\ upd' = IF refreshOk /\ ShouldAnalyze(upd[r].new_tipo, upd[r].old_tipo,
                                          documents[upd[r].doc].status)
            THEN [upd EXCEPT ![r].pc = "analyzing"]
            ELSE [upd EXCEPT ![r] = NoUpd]
  /\ Quiet
  /\ UNCHANGED <<documents, chunks, pc, sess, attempts, messages, chat, served, fn,
                 sideVars>>

\* Lines 247-262: the SELECT of the case has answered or raised; the rest of
\* the financial step, its handler, and the response.
UpdateAnalyze(r, lookupOk) ==
  /\ upd[r].pc = "analyzing"
  /\ FinancialStep(upd[r].doc, upd[r].processo_id, "update_document", lookupOk)
  /\ upd' = [upd EXCEPT ![r] = NoUpd]
  /\ lastSearch' = NoSearch
  /\ UNCHANGED <<chunks, pc, sess, attempts, messages, chat, served, fn, sideVars>>

\* ------------------------------------------------------- delete_document
\* Faulty variant: the chunks of the document are left in place.
DeleteKeepsChunks(d) ==
  /\ documents[d].exists
  /\ documents' = SetDoc(d, NoDoc)
  /\ Quiet
  /\ UNCHANGED <<chunks, pc, sess, attempts, upd, messages, chat, served, fn, sideVars>>

\* Lines 294-312: the row and, by cascade, its chunks are deleted in one commit.
Delete(d) ==
  /\ documents[d].exists
  /\ documents' = SetDoc(d, NoDoc)
  /\ chunks' = [chunks EXCEPT ![d] = <<>>]
  /\ Quiet
  /\ UNCHANGED <<pc, sess, attempts, upd, messages, chat, served, fn, sideVars>>

\* delete_processo, processo_routes.py lines 156-172: the case row is deleted
\* and the commit removes with it, by cascade (models.py: cascade="all,
\* delete-orphan", ondelete="CASCADE"), the documents of the case with their
\* chunks and the conversations of the case with their messages.  A task
\* running for a removed document goes on with the rows it has loaded.
OfCase(d, caso) == documents[d].exists /\ documents[d].processo_id = caso
delete_processo(caso) ==
  /\ Existe(caso)
  /\ processos' = [processos EXCEPT ![caso].exists = FALSE]
  /\ documents' = [d \in DOMAIN documents |->
                     IF OfCase(d, caso) THEN NoDoc ELSE documents[d]]
  /\ chunks' = [d \in DOMAIN chunks |-> IF OfCase(d, caso) THEN <<>> ELSE chunks[d]]
  /\ conv_table' = [c \in Convs |->
                      IF conversations[c].processo_id = caso
                      THEN [conv_table[c] EXCEPT !.exists = FALSE]
                      ELSE conv_table[c]]
  /\ messages' = SelectSeq(messages,
                           LAMBDA m : conversations[m.conversation_id].processo_id # caso)
  /\ selected' = IF selected = caso THEN 0 ELSE selected
  /\ Quiet
  /\ UNCHANGED <<pc, sess, attempts, upd, chat, served, fn, title_tasks, commands>>

\* ------------------------------------------------- search_similar_chunks
\* The rows of table chunks, as (document, index) pairs.
ChunkRows == UNION { {<<d, i>> : i \in 1..Len(chunks[d])} : d \in DOMAIN chunks }

SimOf(query_embedding, dc) == Similarity(query_embedding, chunks[dc[1]][dc[2]].embedding)

\* Faulty variant: the status of the document is not filtered on.
EligibleAnyStatus(query_embedding, processo_id) ==
  { dc \in ChunkRows :
      /\ documents[dc[1]].exists
      /\ (processo_id # 0 => documents[dc[1]].processo_id = processo_id)
      /\ SimOf(query_embedding, dc) >= SIMILARITY_THRESHOLD }

\* Faulty variant: the case of the document is not filtered on.
EligibleAnyCase(query_embedding, processo_id) ==
  { dc \in ChunkRows :
      /\ documents[dc[1]].exists
      /\ documents[dc[1]].status = "processed"
      /\ SimOf(query_embedding, dc) >= SIMILARITY_THRESHOLD }

\* The WHERE clause of lines 72-76 / 99-102; processo_id 0 stands for None.
Eligible(query_embedding, processo_id) ==
  { dc \in ChunkRows :
      /\ documents[dc[1]].exists
      /\ documents[dc[1]].status = "processed"
      /\ (processo_id # 0 => documents[dc[1]].processo_id = processo_id)
      /\ SimOf(query_embedding, dc) >= SIMILARITY_THRESHOLD }

\* ORDER BY distance LIMIT top_k: every ranking of the eligible rows by
\* descending similarity, cut at top_k; rows of equal distance come in any order.
RECURSIVE Ranked(_, _, _)
Ranked(query_embedding, E, top_k) ==
  IF E = {} \/ top_k = 0 THEN {<<>>}
  ELSE UNION { { <<e>> \o r : r \in Ranked(query_embedding, E \ {e}, top_k - 1) } :
               e \in { x \in E : \A y \in E : SimOf(query_embedding, x) >= SimOf(query_embedding, y) } }

\* str() of a UUID and UUID() of such a string.
str(u) == <<"uuid", u>>
UUID(x) == x[2]

\* Lines 114-125: the dict built for each row.
SearchRow(query_embedding, dc) ==
  [id |-> str(dc), documento_id |-> str(dc[1]),
   conteudo |-> chunks[dc[1]][dc[2]].conteudo,
   doc_titulo |-> documents[dc[1]].titulo,
   doc_tipo |-> documents[dc[1]].tipo,
   similarity |-> SimOf(query_embedding, dc)]

search_similar_chunks(query_embedding, processo_id, top_k) ==
  { [i \in 1..Len(r) |-> SearchRow(query_embedding, r[i])] :
      r \in Ranked(query_embedding, Eligible(query_embedding, processo_id), top_k) }

\* Lines 52-127: embed the query (which may raise), run the one SELECT.
Search(query_embedding, processo_id, embedOk) ==
  /\ IF embedOk
     THEN \E rows \in search_similar_chunks(query_embedding, processo_id, SIMILARITY_TOP_K) :
            lastSearch' = [active |-> TRUE, error |-> FALSE,
                           query_embedding |-> query_embedding,
                           processo_id |-> processo_id, rows |-> rows]
     ELSE lastSearch' = [active |-> TRUE, error |-> TRUE,
                         query_embedding |-> query_embedding,
                         processo_id |-> processo_id, rows |-> <<>>]
  /\ finCall' = NoCall
  /\ finErr' = NoErr
  /\ UNCHANGED <<documents, chunks, pc, sess, attempts, upd, messages, chat, served, fn, sideVars>>

\* ------------------------------------------------------------ next-state
FailStages == {"download", "extract", "chunk", "embed"}

\* The steps of the ingestion task of one document but its financial step:
\* `stages` are the calls that may raise before the storing commit, `commits`
\* the outcomes of the first commit, `records` the outcomes of the commits of
\* the two error handlers.
Ingest(d, stages, commits, records) ==
  \/ \E loadOk \in commits : IngestLoad(d, loadOk)
  \/ \E commitOk \in commits, recordOk \in records : IngestStart(d, commitOk, recordOk)
  \/ \E failing \in 0..EmbedCalls(sess[d].arquivo) : IngestPrepare(d, failing)
  \/ \E stage \in stages, failing \in 0..EmbedCalls(sess[d].arquivo),
        cleanupOk \in BOOLEAN, recordOk \in records :
       IngestFail(d, stage, failing, cleanupOk, recordOk)
  \/ IngestCommit(d)
  \/ \E cleanupOk \in BOOLEAN, recordOk \in records :
       IngestCommitFail(d, cleanupOk, recordOk)
  \/ \E cleanupOk \in BOOLEAN : IngestAfterCommit(d, cleanupOk)
  \/ \E recordOk \in records : IngestExcept(d, recordOk)
  \/ \E recordOk \in records : TaskExcept(d, recordOk)

\* The failures injected into the ingestion of a document: every stage and
\* every commit for document 1; for a document running beside it, the failure
\* of the embedding stage (with or without a failing cleanup).  Document 1 is
\* uploaded in every category, with either file, and is the one the PATCH
\* requests are made on, one at a time (SpecPatch runs them at once); a
\* document beside it is a contract of two chunks.  data_referencia is set
\* in a payload that sets nothing else.
StagesOf(d) == IF d = 1 THEN FailStages ELSE {"embed"}
CommitsOf(d) == IF d = 1 THEN BOOLEAN ELSE {TRUE}
TiposOf(d) == IF d = 1 THEN Tipos ELSE {"contrato"}
ArquivosOf(d) == IF d = 1 THEN Arquivos ELSE {TwoChunkText}
OutrosOf(new_tipo, new_titulo) ==
  IF new_tipo = NULL /\ new_titulo = NULL THEN BOOLEAN ELSE {FALSE}

\* The document lifecycle; the case of a document plays no part in it.
Next ==
  \/ \E d \in Docs :
       \E tipo \in TiposOf(d), arquivo \in ArquivosOf(d), refreshOk \in CommitsOf(d) :
         Upload(d, 1, tipo, arquivo, refreshOk)
  \/ \E d \in Docs : Ingest(d, StagesOf(d), CommitsOf(d), CommitsOf(d))
  \/ \E new_tipo \in Tipos \cup {NULL}, new_titulo \in {NULL, NovoTitulo} :
       \E outro \in OutrosOf(new_tipo, new_titulo) :
         ~PatchInFlight /\ UpdateStart(1, new_tipo, new_titulo, outro)
  \/ \E r \in Patches, commitOk \in BOOLEAN : UpdateCommit(r, commitOk)
  \/ \E d \in Docs, lookupOk \in BOOLEAN : IngestFinancial(d, lookupOk)
  \/ \E r \in Patches, refreshOk \in BOOLEAN : UpdateFinish(r, refreshOk)
  \/ \E r \in Patches, lookupOk \in BOOLEAN : UpdateAnalyze(r, lookupOk)
  \/ \E d \in Docs : Delete(d)
  \/ delete_processo(1)

Spec == Init /\ [][Next]_vars

\* Search running against the lifecycle.  Search reads the case, the status and
\* the chunks of a document: the documents are uploaded into either case, and
\* with the inputs that search can tell apart (one category; one PATCH of
\* document 1 at a time, giving it a new category and a new title; the
\* embedding of one query raising; one failing stage before the storing
\* commit, error handlers whose commits succeed, requests whose refresh
\* succeeds: a document left without a task is to search a queued one);
\* documents and the whole of case 1 are deleted while searches run.
EmbedOutcomes(q, processo_id) == IF q = QueryA /\ processo_id = 0 THEN BOOLEAN ELSE {TRUE}
NextSearch ==
  \/ \E d \in Docs, caso \in Casos, arquivo \in Arquivos : Upload(d, caso, "contrato", arquivo, TRUE)
  \/ \E d \in Docs : Ingest(d, {"embed"}, {TRUE}, {TRUE})
  \/ ~PatchInFlight /\ UpdateStart(1, "comprovante", NovoTitulo, FALSE)
  \/ \E r \in Patches : UpdateCommit(r, TRUE)
  \/ \E r \in Patches : UpdateFinish(r, TRUE)
  \/ \E r \in Patches : UpdateAnalyze(r, TRUE)
  \/ \E d \in Docs : IngestFinancial(d, TRUE)
  \/ \E d \in Docs : Delete(d)
  \/ delete_processo(1)
  \/ \E q \in Queries, processo_id \in Casos \cup {0} :
       \E embedOk \in EmbedOutcomes(q, processo_id) : Search(q, processo_id, embedOk)

SpecSearch == Init /\ [][NextSearch]_vars


\* ------------------------------------------- documents of many chunks
MaxChunks == 201

\* A text of n units of 300 tokens each: chunk_text cuts one chunk per unit.
ManyText(n) == [i \in 1..n |-> Sent(1 + (i % 3), 300, i % 2)]

\* The ingestion of one document whose chunks take up to three embedding
\* batches; any service call of generate_embeddings may raise.
NextBatch ==
  \/ \E n \in 0..MaxChunks : Upload(1, 1, "contrato", ManyText(n), TRUE)
  \/ Ingest(1, {"embed"}, {TRUE}, BOOLEAN)

SpecBatch == Init /\ [][NextBatch]_vars

\* ------------------------------------------- generate_embeddings applied
\* The tables are empty and no request runs; fn holds one call of
\* generate_embeddings: a list of n texts, and the service call that raises.
MaxFailing == 3

\* A list of n texts (each a chunk content of one unit); neighbours differ.
InputTexts(n) == [i \in 1..n |-> << ManyText(n)[i] >>]

Idle ==
  /\ documents = [d \in Docs |-> NoDoc]
  /\ chunks = [d \in Docs |-> <<>>]
  /\ pc = [d \in Docs |-> "none"]
  /\ sess = [d \in Docs |-> NoSess]
  /\ attempts = [d \in Docs |-> 0]
  /\ upd = NoPatch
  /\ finCall = NoCall
  /\ finErr = NoErr
  /\ lastSearch = NoSearch
  /\ messages = <<>>
  /\ chat = NoChat
  /\ served = 0
  /\ NoSide

InitEmbed ==
  /\ Idle
  /\ fn \in { [op |-> "generate_embeddings", texts |-> InputTexts(n), failing |-> failing,
               done |-> FALSE, result |-> <<>>] :
               n \in 0..MaxChunks, failing \in 0..MaxFailing }

\* The call returns (result is a sequence of length 1) or raises.
ApplyGenerateEmbeddings ==
  /\ fn.op = "generate_embeddings"
  /\ ~fn.done
  /\ fn' = [fn EXCEPT !.done = TRUE,
                      !.result = << generate_embeddings_call(fn.texts, fn.failing) >>]
  /\ UNCHANGED <<lifeVarsNoFn, chatVars, sideVars>>

SpecEmbed == InitEmbed /\ [][ApplyGenerateEmbeddings]_vars

\* ---------------------------------------------------- chunk_text applied
\* fn holds one call of chunk_text (with the defaults CHUNK_SIZE and
\* CHUNK_OVERLAP): a text of up to MaxSentences units, the i-th unit being
\* Sent(i, t, l) with t among token counts on both sides of the two budgets
\* and l the cost of its joining space.
MaxSentences == 4

\* A blank unit, units of which two fit the overlap budget (20 + 25 < 50,
\* 25 + 25 = 50), one that fits it alone, a unit at the overlap budget, a unit
\* within the chunk budget, one at the chunk budget and one beyond it.
Toks == {0, 20, 25, 40, 50, 480, 500, 600}

Leads == {0, 1}

\* The text of n units whose token counts and joining spaces are given.
TextOf(n, f) == [i \in 1..n |-> Sent(i, f[i][1], f[i][2])]

InitChunk ==
  /\ Idle
  /\ \E n \in 0..MaxSentences :
       \E f \in [1..n -> Toks \X Leads] :
         fn = [op |-> "chunk_text", text |-> TextOf(n, f), done |-> FALSE, result |-> <<>>]

ApplyChunkText ==
  /\ fn.op = "chunk_text"
  /\ ~fn.done
  /\ fn' = [fn EXCEPT !.done = TRUE, !.result = chunk_text(fn.text)]
  /\ UNCHANGED <<lifeVarsNoFn, chatVars, sideVars>>

SpecChunk == InitChunk /\ [][ApplyChunkText]_vars

\* =====================================================================
\* The conversation rows
\* =====================================================================
\* The time of a commit that writes a conversation row (default and onupdate
\* of Conversation.updated_at): later than every stored one.
RECURSIVE MaxUpdatedAt(_)
MaxUpdatedAt(C) ==
  IF C = {} THEN 0
  ELSE LET c == CHOOSE x \in C : TRUE
           rest == MaxUpdatedAt(C \ {c})
       IN IF conv_table[c].updated_at > rest THEN conv_table[c].updated_at ELSE rest
utcnow == MaxUpdatedAt(Convs) + 1

\* create_conversation, chat_routes.py lines 116-144: the case is looked up
\* (404 when it is gone), a web conversation of it with the title of the
\* request (None, or a text such as 'Nova conversa') is inserted and committed.
\* When the commit raises nothing is stored.
create_conversation(caso, titulo, commitOk) ==
  /\ Existe(caso)
  /\ NewId \in Convs
  /\ conv_table' = IF commitOk
                   THEN [conv_table EXCEPT ![NewId] = [exists |-> TRUE, processo_id |-> caso,
                                                       canal |-> "web", titulo |-> titulo,
                                                       updated_at |-> utcnow]]
                   ELSE conv_table
  /\ UNCHANGED <<lifeVars, chatVars, title_tasks, selected, commands, processos>>

\* delete_conversation, lines 237-255: the row of the conversation is deleted
\* and the commit removes with it, by cascade (models.py 157 and 164), the
\* messages of the conversation.  Its case and the documents of the case stay.
delete_conversation(conv) ==
  /\ conv_table[conv].exists
  /\ conv_table' = [conv_table EXCEPT ![conv].exists = FALSE]
  /\ messages' = SelectSeq(messages, LAMBDA m : m.conversation_id # conv)
  /\ UNCHANGED <<lifeVars, chat, served, title_tasks, selected, commands, processos>>

\* =================================================================== chat
MaxRequests == 1
MaxDeltas == 2

\* ------------------------------------------------------------- chat data
\* The conversations that exist when the chat requests start: the web
\* conversations (created without a title, or with the default title) and the
\* Telegram conversation of case 2, in the order they were created.
TelegramTitulo(titulo) == <<84, 101, 108, 101, 103, 114, 97, 109, 32, 45, 32>> \o titulo
TelegramCaso == TelegramTitulo(Caso)
StoredConv(c) ==
  IF c \notin StoredConvs THEN NoConv
  ELSE [exists |-> TRUE, processo_id |-> CasoDe(c), canal |-> CanalDe(c),
        titulo |-> CASE c = 2 -> <<NovaConversa>> [] c = 3 -> <<TelegramCaso>>
                     [] OTHER -> <<>>,
        updated_at |-> c]

\* The query texts, and the vector the embedding service gives each
\* (lines 52-53 of search_similar_chunks).
QueryTexts == {"A", "B", "C"}
embed_query(query) == CASE query = "A" -> QueryA [] query = "B" -> QueryB [] OTHER -> QueryC

\* What the generation service sends: text deltas and usage figures.
Tokens == {"a", "b"}
Usage == [prompt_tokens |-> 120, completion_tokens |-> 7]
Deltas ==
  {[content |-> t, usage |-> <<>>] : t \in Tokens \cup {""}}
    \cup {[content |-> "", usage |-> <<Usage>>]}
\* The generation service writes the text a b a b ...: the pieces it may send
\* next after the pieces `received` (an empty piece, the usage figures, or the
\* next piece of the text), and the answers of a blocking call.
NextDeltas(received) ==
  LET sent == Len(SelectSeq(received, LAMBDA u : u.content # ""))
  IN {delta \in Deltas : delta.content \in {"", IF sent % 2 = 0 THEN "a" ELSE "b"}}
Answers == {<<>>, <<"a">>, <<"a", "b">>}

\* The documents the chat runs over: one processed document per case, each
\* with the chunks that ingestion stores for TwoChunkText.
CorpusDocs == {1, 2}
CorpusDoc(d) ==
  [exists |-> TRUE, processo_id |-> d, tipo |-> "contrato", titulo |-> Titulo(d),
   arquivo |-> TwoChunkText,
   status |-> "processed", texto_extraido |-> <<TwoChunkText>>, error_message |-> NULL]
CorpusChunks(d) ==
  LET chunks_data == chunk_text(TwoChunkText)
  IN BuildChunks(d, "contrato", Titulo(d), chunks_data,
                 generate_embeddings([i \in 1..Len(chunks_data) |-> chunks_data[i].conteudo]))

\* ------------------------------------------------------- JSON and SSE text
\* json.dumps of a dict: its "key": value members, one after the other;
\* json.loads reads the members back into a dict.
RECURSIVE Members(_, _)
Members(data, keys) ==
  IF keys = {} THEN <<>>
  ELSE LET k == CHOOSE x \in keys : TRUE
       IN <<<<k, data[k]>>>> \o Members(data, keys \ {k})

json_dumps(data) == Members(data, DOMAIN data)

json_loads(text) ==
  [k \in {text[i][1] : i \in DOMAIN text} |->
     text[CHOOSE i \in DOMAIN text : text[i][1] = k][2]]

\* _format_sse: the "event: <name>" line and the "data: <json>" line.
format_sse(event, data) == << <<"event: ", event>>, <<"data: ", json_dumps(data)>> >>

EventName(e) == e[1][2]

\* event.startswith("event: done"), and json.loads of the first "data: " line
\* (lines 426-432 of event_generator).
IsDoneEvent(e) == e[1] = <<"event: ", "done">>
DataOf(e) == json_loads(e[CHOOSE i \in DOMAIN e : e[i][1] = "data: "][2])

\* ------------------------------------------------- the result of chat
\* The usage totals of the requests of the model.
UsageTotals == {0, Usage.prompt_tokens} \X {0, Usage.completion_tokens}

\* chat, lines 215-217: the cost in doubles, as the code computes it.
chat_cost(prompt_tokens, completion_tokens) ==
  FloatAdd(FloatDivMillion(FloatMulInt(prompt_tokens, Float015)),
           FloatDivMillion(FloatMulInt(completion_tokens, Float060)))

\* chat, line 233: round(cost, 6), in millionths of a dollar (for the usage
\* totals of the model, rounded once).
ChatCostOfUsage == {<<u, round6(chat_cost(u[1], u[2]))>> : u \in UsageTotals}
chat_cost_usd(prompt_tokens, completion_tokens) ==
  IF <<prompt_tokens, completion_tokens>> \in UsageTotals
  THEN (CHOOSE uc \in ChatCostOfUsage : uc[1] = <<prompt_tokens, completion_tokens>>)[2]
  ELSE round6(chat_cost(prompt_tokens, completion_tokens))

\* chat, lines 222-230: one source per retrieved row, in the order of the rows.
chat_sources(chunks_) ==
  [i \in 1..Len(chunks_) |-> [doc_titulo |-> chunks_[i].doc_titulo,
                              doc_tipo |-> chunks_[i].doc_tipo,
                              similarity |-> chunks_[i].similarity,
                              documento_id |-> chunks_[i].documento_id]]

\* chat, lines 219-234: the dict it returns.
ResultData(answer, chunks_, prompt_tokens, completion_tokens) ==
  [answer |-> answer,
   chunks_used |-> [i \in 1..Len(chunks_) |-> chunks_[i].id],
   sources |-> chat_sources(chunks_),
   tokens_input |-> prompt_tokens,
   tokens_output |-> completion_tokens,
   cost_usd |-> chat_cost_usd(prompt_tokens, completion_tokens)]

\* ------------------------------------------------------------ the messages
\* Nullable columns hold <<>> (NULL) or <<value>>; req is the request that
\* wrote the row.
UserMessage(conv, req, content) ==
  [conversation_id |-> conv, req |-> req, role |-> "user", content |-> content,
   chunks_usados |-> <<>>, tokens_input |-> <<>>, tokens_output |-> <<>>,
   custo_estimado |-> <<>>, sources |-> <<>>]

\* SourceInfo(...).model_dump() (schemas/chat.py 33-37).
SourceInfo(s) ==
  [doc_titulo |-> s.doc_titulo, doc_tipo |-> s.doc_tipo,
   documento_id |-> s.documento_id, similarity |-> s.similarity]


\* The assistant Message of send_message (lines 314-337), of event_generator
\* (lines 438-457) and, without the sources metadata, of the Telegram handler
\* (lines 267-275).
AssistantMessage(conv, req, data, with_sources) ==
  [conversation_id |-> conv, req |-> req, role |-> "assistant", content |-> data.answer,
   chunks_usados |-> <<[i \in 1..Len(data.chunks_used) |-> UUID(data.chunks_used[i])]>>,
   tokens_input |-> <<data.tokens_input>>,
   tokens_output |-> <<data.tokens_output>>,
   custo_estimado |-> <<data.cost_usd>>,
   sources |-> IF with_sources
               THEN <<[i \in 1..Len(data.sources) |-> SourceInfo(data.sources[i])]>>
               ELSE <<>>]

\* -------------------------------------------------------------- the prompt
\* The rows of table messages of a conversation in created_at order, and the
\* dicts the handlers make of them (send_message 278-286, _handle_message
\* 236-245).
ConversationRows(conv) == SelectSeq(messages, LAMBDA m : m.conversation_id = conv)
AsHistory(rows) == [i \in 1..Len(rows) |-> [role |-> rows[i].role, content |-> rows[i].content]]

\* .limit(n) of a query, and list[-n:].
Limit(rows, n) == SubSeq(rows, 1, Min(n, Len(rows)))
LastN(list, n) == SubSeq(list, Len(list) - Min(n, Len(list)) + 1, Len(list))


\* build_context: the fixed statement when nothing was retrieved, otherwise
\* one part per row, numbered from 1 in rank order.
NoEvidence == "Nenhum documento relevante encontrado."

\* f"{similarity:.2f}" of the double milli / 1000, in hundredths (for the
\* similarities of the model's vectors, formatted once).
Format2fFloat(milli) ==
  IF milli < 0 THEN 0 - FloatRoundTo(FloatOfMilli(0 - milli), 100)
  ELSE FloatRoundTo(FloatOfMilli(milli), 100)

Similarities == {SimTable[x] : x \in DOMAIN SimTable}
Format2fOfSimilarity == {<<milli, Format2fFloat(milli)>> : milli \in Similarities}

Format2f(milli) ==
  IF milli \in Similarities
  THEN (CHOOSE mf \in Format2fOfSimilarity : mf[1] = milli)[2]
  ELSE Format2fFloat(milli)

\* Faulty variant: an empty evidence block when nothing was retrieved.
build_contextEmpty(rows) ==
  [statement |-> "",
   parts |-> [i \in 1..Len(rows) |->
                [fonte |-> i, similarity |-> Format2f(rows[i].similarity),
                 doc_tipo |-> rows[i].doc_tipo, doc_titulo |-> rows[i].doc_titulo,
                 conteudo |-> rows[i].conteudo]]]

build_context(rows) ==
  IF rows = <<>> THEN [statement |-> NoEvidence, parts |-> <<>>]
  ELSE [statement |-> "",
        parts |-> [i \in 1..Len(rows) |->
                     [fonte |-> i, similarity |-> Format2f(rows[i].similarity),
                      doc_tipo |-> rows[i].doc_tipo, doc_titulo |-> rows[i].doc_titulo,
                      conteudo |-> rows[i].conteudo]]]

\* _build_messages: the system message, the last 10 messages of the history it
\* is given, and the user message made of the case notes (when there are any:
\* line 166 tests their truth value, so that empty notes are left out as absent
\* ones are), the context and the question.  Every caller of this source
\* passes None for the notes.
SYSTEM_PROMPT == "Voce e um assistente juridico ..."
build_messages(query, conversation_history, context, processo_contexto) ==
  <<[role |-> "system", content |-> SYSTEM_PROMPT]>>
    \o LastN(conversation_history, 10)
    \o <<[role |-> "user",
          content |-> [processo_contexto |-> IF processo_contexto = "" THEN NULL
                                             ELSE processo_contexto,
                       context |-> context, query |-> query]]>>

\* ---------------------------------------------------------- the requests
\* The values of chat.pc of a handler that has ended.
Ended == {"returned", "unsaved", "raised", "cancelled", "apologised"}

\* A request is received: the conversation is loaded (it exists, and so does
\* its case: the foreign key of models.py 147), the history is read and the
\* user message is committed (send_message 265-296, send_message_stream
\* 376-407, _handle_message 215-255).  Requests are served one after the other.
Receive(kind, conv, query, at, history) ==
  /\ chat.pc \in {"idle"} \cup Ended
  /\ served < MaxRequests
  /\ conv_table[conv].exists
  /\ served' = served + 1
  /\ messages' = Append(messages, UserMessage(conv, served + 1, query))
  /\ chat' = [NoChat EXCEPT !.kind = kind, !.conv = conv, !.query = query, !.pc = at,
                            !.history = history]
  /\ UNCHANGED <<lifeVars, sideVars>>

send_message_start(conv, query) ==
  Receive("blocking", conv, query, "contexto", AsHistory(ConversationRows(conv)))

send_message_stream_start(conv, query) ==
  Receive("stream", conv, query, "contexto", AsHistory(ConversationRows(conv)))

\* The Telegram conversations of the user that exist.
TelegramConvs == {c \in Convs : conversations[c].canal = "telegram" /\ conv_table[c].exists}

\* _handle_message answers in the user's most recently updated Telegram
\* conversation (lines 216-225), with the history query of lines 236-241; the
\* user message is committed at line 254.
handle_message_start(query) ==
  \E conv \in TelegramConvs :
    /\ \A c \in TelegramConvs : conv_table[c].updated_at <= conv_table[conv].updated_at
    /\ Receive("telegram", conv, query, "typing", AsHistory(Limit(ConversationRows(conv), 20)))

\* The calls of chat that may raise: the embedding of the query (line 52), the
\* SELECT (line 112), the generation call (line 193).
ChatOutcomes == {"ok", "embed", "search", "generate"}

\* Faulty variant: a chat that raised is answered with an empty assistant message.
OnChatErrorEmptyAnswer(conv, req) ==
  Append(messages, AssistantMessage(conv, req, ResultData(<<>>, <<>>, 0, 0), TRUE))

\* send_message has no handler around chat (lines 305-312): the exception
\* leaves it, and nothing is stored after the user message.
OnChatError(conv, req) == messages

\* The request in progress has raised `exc`: send_message and
\* send_message_stream have no handler around their calls, the exception
\* leaves them; in _handle_message every exception of the try block (lines
\* 260-282) goes to the handler of line 284.
ChatRaised(exc) ==
  [chat EXCEPT !.pc = IF chat.kind = "telegram" THEN "except" ELSE "raised", !.exc = exc]

\* send_message, lines 299-303: the SELECT of the case of the conversation
\* (which may raise as any database call) and processo.contexto.  The case
\* row exists unless delete_processo has committed since the refresh of line
\* 296; for a row that is found line 303 raises AttributeError and the request
\* fails, with the user message stored, before chat is called.
send_message_contexto(lookupOk) ==
  /\ chat.kind = "blocking" /\ chat.pc = "contexto"
  /\ LET processo == ProcessoOf(conversations[chat.conv].processo_id)
     IN chat' = IF ~lookupOk THEN ChatRaised("lookup")
                ELSE IF ContextoOf(processo) = AttributeError THEN ChatRaised("contexto")
                ELSE [chat EXCEPT !.pc = "rag", !.processo_contexto = ContextoOf(processo)]
  /\ UNCHANGED <<lifeVars, messages, served, sideVars>>

\* send_message_stream, lines 410-414: the same two statements, before
\* event_generator and the StreamingResponse exist (lines 416 and 464): when
\* line 414 raises, the request fails and no event is ever sent.
send_message_stream_contexto(lookupOk) ==
  /\ chat.kind = "stream" /\ chat.pc = "contexto"
  /\ LET processo == ProcessoOf(conversations[chat.conv].processo_id)
     IN chat' = IF ~lookupOk THEN ChatRaised("lookup")
                ELSE IF ContextoOf(processo) = AttributeError THEN ChatRaised("contexto")
                ELSE [chat EXCEPT !.pc = "open", !.processo_contexto = ContextoOf(processo)]
  /\ UNCHANGED <<lifeVars, messages, served, sideVars>>

\* delete_processo commits for the case of the web request in progress while
\* the request is between its refresh (line 296 / 407) and its SELECT of the
\* case (line 299 / 410).
ProcessoDeletedMeanwhile ==
  /\ chat.kind \in {"blocking", "stream"} /\ chat.pc = "contexto"
  /\ delete_processo(conversations[chat.conv].processo_id)

\* chat, lines 176-190, called by send_message (line 306, with the notes of
\* line 303) and by _handle_message (line 261, without notes): the query is
\* embedded, the rows are selected from the tables as they are now, and the
\* messages are built from them.  `outcome` names the call that raises.
chat_search(outcome) ==
  /\ chat.kind \in {"blocking", "telegram"} /\ chat.pc = "rag"
  /\ LET caso == conversations[chat.conv].processo_id
     IN IF outcome # "ok" THEN chat' = ChatRaised(outcome)
        ELSE \E rows \in search_similar_chunks(embed_query(chat.query), caso,
                                               SIMILARITY_TOP_K) :
               chat' = [chat EXCEPT !.pc = "searched", !.rows = rows,
                                    !.prompt = build_messages(chat.query, chat.history,
                                                              build_context(rows),
                                                              chat.processo_contexto)]
  /\ messages' = IF outcome # "ok" THEN OnChatError(chat.conv, served) ELSE messages
  /\ UNCHANGED <<lifeVars, served, sideVars>>

\* chat, lines 193-234: the generation call, which raises or answers, and the
\* result made of the answer, the usage figures and the rows retrieved before
\* the call.
chat_generate(ok, answer) ==
  /\ chat.kind \in {"blocking", "telegram"} /\ chat.pc = "searched"
  /\ chat' = IF ~ok THEN ChatRaised("generate")
             ELSE [chat EXCEPT !.pc = "answered",
                               !.rag_result_data =
                                  <<ResultData(answer, chat.rows, Usage.prompt_tokens,
                                               Usage.completion_tokens)>>]
  /\ messages' = IF ~ok THEN OnChatError(chat.conv, served) ELSE messages
  /\ UNCHANGED <<lifeVars, served, sideVars>>

\* send_message, lines 314-337: the assistant message is made of the result
\* of chat and committed.  The commit raises when the conversation was
\* deleted meanwhile (the foreign key of the message), and may raise as any
\* database call: the message is rolled back and the exception leaves the
\* handler.  A request gets here only past line 303, so after its case was
\* deleted, and with the case its conversation (models.py 54 and 147): in
\* this source the commit of line 337 always raises, and the lines after it
\* (the refresh, the start of _generate_title, the response) never run.
send_message_commit(ok) ==
  /\ chat.kind = "blocking" /\ chat.pc = "answered"
  /\ conv_table[chat.conv].exists \/ ~ok
  /\ chat' = IF ok THEN [chat EXCEPT !.pc = "stored"] ELSE ChatRaised("commit")
  /\ messages' = IF ok
                 THEN Append(messages,
                             AssistantMessage(chat.conv, served, chat.rag_result_data[1], TRUE))
                 ELSE messages
  /\ UNCHANGED <<lifeVars, served, sideVars>>


\* _handle_message, line 257: the typing indicator, outside the try block; its
\* exception leaves the handler before chat is called.
handle_message_typing(ok) ==
  /\ chat.kind = "telegram" /\ chat.pc = "typing"
  /\ chat' = [chat EXCEPT !.pc = IF ok THEN "rag" ELSE "raised",
                          !.exc = IF ok THEN @ ELSE "typing"]
  /\ UNCHANGED <<lifeVars, messages, served, sideVars>>

\* _handle_message, lines 268-279: the assistant message is stored without the
\* sources metadata and committed; a commit that raises rolls it back.
handle_message_commit(ok) ==
  /\ chat.kind = "telegram" /\ chat.pc = "answered"
  /\ conv_table[chat.conv].exists \/ ~ok
  /\ chat' = IF ok THEN [chat EXCEPT !.pc = "stored"] ELSE ChatRaised("commit")
  /\ messages' = IF ok
                 THEN Append(messages,
                             AssistantMessage(chat.conv, served, chat.rag_result_data[1], FALSE))
                 ELSE messages
  /\ UNCHANGED <<lifeVars, served, sideVars>>

\* _handle_message, line 282: the answer is sent to the user; when the call
\* raises, the stored message stays.
handle_message_reply(ok) ==
  /\ chat.kind = "telegram" /\ chat.pc = "stored"
  /\ chat' = IF ok THEN [chat EXCEPT !.pc = "returned"] ELSE ChatRaised("reply")
  /\ UNCHANGED <<lifeVars, messages, served, sideVars>>

\* _handle_message, lines 284-289: the handler of the try block sends an
\* apology with the same send_message call, awaited unprotected: when it
\* raises too, its exception leaves the handler and no apology was sent.
handle_message_except(apologyOk) ==
  /\ chat.kind = "telegram" /\ chat.pc = "except"
  /\ chat' = [chat EXCEPT !.pc = IF apologyOk THEN "apologised" ELSE "raised",
                          !.exc = IF apologyOk THEN @ ELSE "apology"]
  /\ UNCHANGED <<lifeVars, messages, served, sideVars>>

\* ------------------------------------------------------------ chat_stream
\* Each step runs chat_stream, driven by event_generator, up to its next
\* yield; event_generator passes the event on (after reading a done event).
Yield(event) == Append(chat.emitted, event)

\* Line 247: the first event.
StreamSearching ==
  /\ chat.kind = "stream" /\ chat.pc = "open"
  /\ chat' = [chat EXCEPT !.pc = "searching",
                          !.emitted = Yield(format_sse("status", [phase |-> "searching"]))]
  /\ UNCHANGED <<lifeVars, messages, served, sideVars>>

\* Lines 249-254: the search (whose embedding call may raise), the prompt, and
\* the second event.
StreamSearch(embedOk) ==
  /\ chat.kind = "stream" /\ chat.pc = "searching"
  /\ IF embedOk
     THEN \E rows \in search_similar_chunks(embed_query(chat.query),
                                            conversations[chat.conv].processo_id,
                                            SIMILARITY_TOP_K) :
            chat' = [chat EXCEPT !.pc = "generating", !.rows = rows,
                                 !.prompt =
                                    build_messages(chat.query, chat.history,
                                                   build_context(rows),
                                                   chat.processo_contexto),
                                 !.emitted = Yield(format_sse("status", [phase |-> "generating"]))]
     ELSE chat' = [chat EXCEPT !.pc = "raised", !.exc = "embed"]
  /\ UNCHANGED <<lifeVars, messages, served, sideVars>>

\* Lines 256-268: the generation stream is opened (which may raise).
StreamCreate(ok) ==
  /\ chat.kind = "stream" /\ chat.pc = "generating"
  /\ chat' = [chat EXCEPT !.pc = IF ok THEN "streaming" ELSE "raised",
                          !.exc = IF ok THEN NULL ELSE "generate"]
  /\ UNCHANGED <<lifeVars, messages, served, sideVars>>

\* Faulty variant: the text is held back until the usage figures arrive.
StreamDeltaBuffered(delta) ==
  /\ chat.kind = "stream" /\ chat.pc = "streaming"
  /\ chat.deltas < MaxDeltas
  /\ chat' = [chat EXCEPT
       !.deltas = @ + 1,
       !.received = Append(@, delta),
       !.total_prompt_tokens =
          IF delta.usage # <<>> THEN delta.usage[1].prompt_tokens ELSE @,
       !.total_completion_tokens =
          IF delta.usage # <<>> THEN delta.usage[1].completion_tokens ELSE @,
       !.full_answer = IF delta.content # "" THEN Append(@, delta.content) ELSE @,
       !.emitted = IF delta.usage # <<>>
                   THEN @ \o [i \in 1..Len(chat.full_answer) |->
                                format_sse("token", [content |-> chat.full_answer[i]])]
                   ELSE @]
  /\ UNCHANGED <<lifeVars, messages, served, sideVars>>

\* Lines 270-279: one chunk of the generation stream: its usage figures are
\* kept, a non-empty delta is appended to the answer and yielded as a token.
StreamDelta(delta) ==
  /\ chat.kind = "stream" /\ chat.pc = "streaming"
  /\ chat.deltas < MaxDeltas
  /\ chat' = [chat EXCEPT
       !.deltas = @ + 1,
       !.received = Append(@, delta),
       !.total_prompt_tokens =
          IF delta.usage # <<>> THEN delta.usage[1].prompt_tokens ELSE @,
       !.total_completion_tokens =
          IF delta.usage # <<>> THEN delta.usage[1].completion_tokens ELSE @,
       !.full_answer = IF delta.content # "" THEN Append(@, delta.content) ELSE @,
       !.emitted = IF delta.content # ""
                   THEN Yield(format_sse("token", [content |-> delta.content]))
                   ELSE @]
  /\ UNCHANGED <<lifeVars, messages, served, sideVars>>

\* The generation stream raises while it is read.
StreamFail ==
  /\ chat.kind = "stream" /\ chat.pc = "streaming"
  /\ chat' = [chat EXCEPT !.pc = "raised", !.exc = "generate"]
  /\ UNCHANGED <<lifeVars, messages, served, sideVars>>

\* chat_stream, lines 282-284: the cost in doubles, as the code computes it.
chat_stream_cost(total_prompt_tokens, total_completion_tokens) ==
  FloatAdd(FloatDivMillion(FloatMulInt(total_prompt_tokens, Float015)),
           FloatDivMillion(FloatMulInt(total_completion_tokens, Float060)))

\* chat_stream, line 307: round(cost, 6) (for the usage totals of the model,
\* rounded once).
StreamCostOfUsage == {<<u, round6(chat_stream_cost(u[1], u[2]))>> : u \in UsageTotals}
chat_stream_cost_usd(total_prompt_tokens, total_completion_tokens) ==
  IF <<total_prompt_tokens, total_completion_tokens>> \in UsageTotals
  THEN (CHOOSE uc \in StreamCostOfUsage :
          uc[1] = <<total_prompt_tokens, total_completion_tokens>>)[2]
  ELSE round6(chat_stream_cost(total_prompt_tokens, total_completion_tokens))

\* chat_stream, lines 287-295: the list `sources`, used by the sources event
\* and by the done event.
chat_stream_sources(chunks_) ==
  [i \in 1..Len(chunks_) |-> [doc_titulo |-> chunks_[i].doc_titulo,
                              doc_tipo |-> chunks_[i].doc_tipo,
                              similarity |-> chunks_[i].similarity,
                              documento_id |-> chunks_[i].documento_id]]

\* Lines 281-298: the generation stream has ended; the sources event.
StreamSources ==
  /\ chat.kind = "stream" /\ chat.pc = "streaming"
  /\ chat' = [chat EXCEPT
       !.pc = "sources",
       !.emitted = Yield(format_sse("sources",
                                    [sources |-> chat_stream_sources(chat.rows)]))]
  /\ UNCHANGED <<lifeVars, messages, served, sideVars>>

\* Faulty variant: the result is sent before the sources.
DoneEventsSwapped(emitted, data) ==
  SubSeq(emitted, 1, Len(emitted) - 1)
    \o <<format_sse("done", data), emitted[Len(emitted)]>>

\* Lines 299-308: the done event follows what was yielded so far.
DoneEvents(emitted, data) == Append(emitted, format_sse("done", data))

\* Faulty variant: the cost of the streamed answer leaves out the prompt tokens.
DoneDataCompletionCost(full_answer, chunks_, total_prompt_tokens, total_completion_tokens) ==
  [answer |-> full_answer,
   chunks_used |-> [i \in 1..Len(chunks_) |-> chunks_[i].id],
   sources |-> chat_stream_sources(chunks_),
   tokens_input |-> total_prompt_tokens,
   tokens_output |-> total_completion_tokens,
   cost_usd |-> chat_stream_cost_usd(0, total_completion_tokens)]

\* The payload of the done event (lines 281-308 of chat_stream), from the
\* locals of the generator.
DoneData(full_answer, chunks_, total_prompt_tokens, total_completion_tokens) ==
  [answer |-> full_answer,
   chunks_used |-> [i \in 1..Len(chunks_) |-> chunks_[i].id],
   sources |-> chat_stream_sources(chunks_),
   tokens_input |-> total_prompt_tokens,
   tokens_output |-> total_completion_tokens,
   cost_usd |-> chat_stream_cost_usd(total_prompt_tokens, total_completion_tokens)]

\* chat_stream yields the done event; event_generator (lines 426-434) reads
\* the result out of it before passing it on.
StreamDone ==
  /\ chat.kind = "stream" /\ chat.pc = "sources"
  /\ LET emitted == DoneEvents(chat.emitted,
                               DoneData(chat.full_answer, chat.rows,
                                        chat.total_prompt_tokens,
                                        chat.total_completion_tokens))
         event == emitted[Len(emitted)]
     IN chat' = [chat EXCEPT
          !.pc = "done",
          !.emitted = emitted,
          !.rag_result_data = IF IsDoneEvent(event) THEN <<DataOf(event)>> ELSE @]
  /\ UNCHANGED <<lifeVars, messages, served, sideVars>>

\* How the commit of line 459 ends: it returns, it raises, or the response
\* is cancelled (the client has gone) while it is awaited, after the database
\* has committed.
PersistOutcomes == {"ok", "fail", "cancelled"}

\* chat_stream returns; event_generator, lines 436-459: the assistant message
\* is made of the result read from the done event and committed. When the
\* commit raises nothing is stored; when the response is cancelled during the
\* commit the message is stored.  The commit raises when the conversation
\* was deleted meanwhile (the foreign key of the message).  A request gets
\* here only past line 414, so after its case was deleted, and with the case
\* its conversation: in this source the commit of line 459 always raises and
\* line 462, the start of _generate_title, never runs.
StreamPersist(outcome) ==
  /\ chat.kind = "stream" /\ chat.pc = "done"
  /\ chat.rag_result_data = <<>> => outcome = "ok"
  /\ (chat.rag_result_data # <<>> /\ ~conv_table[chat.conv].exists) => outcome = "fail"
  /\ IF chat.rag_result_data # <<>> /\ outcome # "fail"
     THEN messages' = Append(messages,
                             AssistantMessage(chat.conv, served, chat.rag_result_data[1], TRUE))
     ELSE UNCHANGED messages
  /\ chat' = [chat EXCEPT !.pc = CASE outcome = "ok" -> "returned"
                                   [] outcome = "fail" -> "unsaved"
                                   [] OTHER -> "cancelled",
                          !.exc = IF outcome = "fail" THEN "commit" ELSE @]
  /\ UNCHANGED <<lifeVars, served, sideVars>>

\* Faulty variant: a cancelled response stores what was streamed so far.
DisconnectStoresPartial ==
  /\ chat.kind = "stream"
  /\ chat.pc \in {"open", "searching", "generating", "streaming", "sources", "done"}
  /\ chat' = [chat EXCEPT !.pc = "cancelled"]
  /\ messages' = Append(messages,
                        AssistantMessage(chat.conv, served,
                                         DoneData(chat.full_answer, chat.rows, 0, 0), TRUE))
  /\ UNCHANGED <<lifeVars, served, sideVars>>

\* The client disconnects: the response is cancelled where event_generator is
\* suspended (before its first step, or at a yield), and nothing after that
\* point runs.
Disconnect ==
  /\ chat.kind = "stream"
  /\ chat.pc \in {"open", "searching", "generating", "streaming", "sources", "done"}
  /\ chat' = [chat EXCEPT !.pc = "cancelled"]
  /\ UNCHANGED <<lifeVars, messages, served, sideVars>>

\* The chat requests start with the conversations stored and, for each case,
\* its processed document stored or no document at all.
InitChat ==
  /\ \E stored \in SUBSET CorpusDocs :
       /\ documents = [d \in CorpusDocs |-> IF d \in stored THEN CorpusDoc(d) ELSE NoDoc]
       /\ chunks = [d \in CorpusDocs |-> IF d \in stored THEN CorpusChunks(d) ELSE <<>>]
  /\ pc = [d \in CorpusDocs |-> "done"]
  /\ sess = [d \in CorpusDocs |-> NoSess]
  /\ attempts = [d \in CorpusDocs |-> 1]
  /\ upd = NoPatch
  /\ finCall = NoCall
  /\ finErr = NoErr
  /\ lastSearch = NoSearch
  /\ messages = <<>>
  /\ chat = NoChat
  /\ served = 0
  /\ fn = NoFn
  /\ conv_table = [c \in Convs |-> StoredConv(c)]
  /\ title_tasks = <<>>
  /\ selected = 0
  /\ commands = <<>>
  /\ processos = StoredProcessos

\* The conversations of the web channel, on which the web requests are made.
WebConvs == {c \in Convs : conversations[c].canal = "web"}

\* The web requests and the messages of the Telegram user, one at a time; the
\* case of a web request may be deleted while the request looks it up, and
\* between the steps of a request the document of case 1 may be given a new
\* title (by one PATCH request) and one web conversation of case 1 may be
\* created.
NextChat ==
  \/ /\ ~PatchInFlight
     /\ documents[1].exists /\ NovoTitulo # documents[1].titulo
     /\ UpdateStart(1, NULL, NovoTitulo, FALSE)
  \/ \E r \in Patches : UpdateCommit(r, TRUE)
  \/ \E r \in Patches : UpdateFinish(r, TRUE)
  \/ \E commitOk \in BOOLEAN :
       LastConv \in StoredConvs /\ create_conversation(1, <<NovaConversa>>, commitOk)
  \/ \E conv \in WebConvs, query \in QueryTexts : send_message_start(conv, query)
  \/ \E lookupOk \in BOOLEAN : send_message_contexto(lookupOk)
  \/ ProcessoDeletedMeanwhile
  \/ \E outcome \in ChatOutcomes \ {"generate"} : chat_search(outcome)
  \/ \E ok \in BOOLEAN, answer \in Answers : chat_generate(ok, answer)
  \/ \E ok \in BOOLEAN : send_message_commit(ok)
  \/ \E query \in QueryTexts : handle_message_start(query)
  \/ \E ok \in BOOLEAN : handle_message_typing(ok)
  \/ \E ok \in BOOLEAN : handle_message_commit(ok)
  \/ \E ok \in BOOLEAN : handle_message_reply(ok)
  \/ \E apologyOk \in BOOLEAN : handle_message_except(apologyOk)
  \/ \E conv \in WebConvs, query \in QueryTexts : send_message_stream_start(conv, query)
  \/ \E lookupOk \in BOOLEAN : send_message_stream_contexto(lookupOk)
  \/ StreamSearching
  \/ \E embedOk \in BOOLEAN : StreamSearch(embedOk)
  \/ \E ok \in BOOLEAN : StreamCreate(ok)
  \/ \E delta \in NextDeltas(chat.received) : StreamDelta(delta)
  \/ StreamFail
  \/ StreamSources
  \/ StreamDone
  \/ \E outcome \in PersistOutcomes : StreamPersist(outcome)
  \/ Disconnect

SpecChat == InitChat /\ [][NextChat]_vars

\* update_document requests running at once on the processed document of
\* case 1, while the document and its case are deleted.
InitPatch ==
  /\ documents = [d \in CorpusDocs |-> CorpusDoc(d)]
  /\ chunks = [d \in CorpusDocs |-> CorpusChunks(d)]
  /\ pc = [d \in CorpusDocs |-> "done"]
  /\ sess = [d \in CorpusDocs |-> NoSess]
  /\ attempts = [d \in CorpusDocs |-> 1]
  /\ upd = NoPatch
  /\ finCall = NoCall
  /\ finErr = NoErr
  /\ lastSearch = NoSearch
  /\ messages = <<>>
  /\ chat = NoChat
  /\ served = 0
  /\ fn = NoFn
  /\ NoSide

NextPatch ==
  \/ \E new_tipo \in Tipos \cup {NULL}, new_titulo \in {NULL, NovoTitulo} :
       \E outro \in OutrosOf(new_tipo, new_titulo) : UpdateStart(1, new_tipo, new_titulo, outro)
  \/ \E r \in Patches, commitOk \in BOOLEAN : UpdateCommit(r, commitOk)
  \/ \E r \in Patches, refreshOk \in BOOLEAN : UpdateFinish(r, refreshOk)
  \/ \E r \in Patches, lookupOk \in BOOLEAN : UpdateAnalyze(r, lookupOk)
  \/ Delete(1)
  \/ delete_processo(1)

SpecPatch == InitPatch /\ [][NextPatch]_vars

\* ============================================================ properties
\* of the document lifecycle (Spec) and of search against it (SpecSearch)

StatusSteps == {<<"uploaded", "processing">>, <<"processing", "processed">>,
                <<"processing", "error">>}

\* C1: a document is created with status uploaded, and a step changes the
\* status of a document only along uploaded -> processing, processing ->
\* processed or processing -> error; in particular nothing changes it once it
\* is processed or error.
C1_StatusTransitions ==
  [][\A d \in Docs :
       /\ (~documents[d].exists /\ documents'[d].exists)
            => documents'[d].status = "uploaded"
       /\ (documents[d].exists /\ documents'[d].exists)
            => \/ documents'[d].status = documents[d].status
               \/ <<documents[d].status, documents'[d].status>> \in StatusSteps]_vars

\* The chunk a response row of search stands for.
RowChunk(r) == chunks[UUID(r.id)[1]][UUID(r.id)[2]]

\* C2: every row that a search returns is a chunk of a document whose status
\* is processed in the state the query ran in, with similarity to the query
\* vector (as reported in the row) at or above SIMILARITY_THRESHOLD; so when
\* nothing qualifies the response is the empty list.
C2_SearchOnlyProcessedAboveFloor ==
  (lastSearch.active /\ ~lastSearch.error) =>
    \A i \in 1..Len(lastSearch.rows) :
      LET r == lastSearch.rows[i]
          d == UUID(r.documento_id)
      IN /\ d = UUID(r.id)[1]
         /\ documents[d].exists
         /\ documents[d].status = "processed"
         /\ UUID(r.id)[2] \in 1..Len(chunks[d])
         /\ r.similarity = Similarity(lastSearch.query_embedding, RowChunk(r).embedding)
         /\ r.similarity >= SIMILARITY_THRESHOLD

\* A search answered with the empty list while a chunk at or above the floor,
\* in the case searched, belongs to a document that is not processed.
C2_Witness ==
  /\ lastSearch.active /\ ~lastSearch.error
  /\ lastSearch.rows = <<>>
  /\ \E d \in Docs :
       /\ documents[d].exists
       /\ documents[d].status = "error"
       /\ lastSearch.processo_id \in {0, documents[d].processo_id}
       /\ \E i \in 1..Len(chunks[d]) :
            Similarity(lastSearch.query_embedding, chunks[d][i].embedding)
              >= SIMILARITY_THRESHOLD

\* C7: whoever reads the committed state sees, for a document with status
\* processed, every chunk of its ingestion: as many rows as chunk_text cuts
\* from its text, at positions 0..n-1, each with the content of its chunk.
C7_ProcessedHasAllChunks ==
  \A d \in Docs :
    (documents[d].exists /\ documents[d].status = "processed") =>
      LET chunks_data == chunk_text(documents[d].arquivo)
      IN /\ documents[d].texto_extraido = <<documents[d].arquivo>>
         /\ Len(chunks[d]) = Len(chunks_data)
         /\ \A i \in 1..Len(chunks[d]) :
              /\ chunks[d][i].posicao = i - 1
              /\ chunks[d][i].conteudo = chunks_data[i].conteudo
              /\ chunks[d][i].embedding = generate_embeddings(<<chunks_data[i].conteudo>>)[1]

\* A search that reads a processed document of two chunks and returns both.
C7_Witness ==
  /\ lastSearch.active
  /\ Len(lastSearch.rows) = 2
  /\ \E d \in Docs : documents[d].status = "processed" /\ Len(chunks[d]) = 2

\* C8: when the download, the extraction, the chunking, the embedding or the
\* storing commit raised in process_document, the document (while it exists)
\* has status error and the message of that exception as error_message, and
\* process_document ran once for it.
C8_StageFailureRecorded ==
  \A d \in Docs :
    (sess[d].raised \in FailStages \cup {"store"} /\ documents[d].exists) =>
      /\ documents[d].status = "error"
      /\ documents[d].error_message = sess[d].raised
      /\ attempts[d] = 1

\* C9: the step in which the financial step of process_document or of
\* update_document raises (in the lookup of the case, in the read of its
\* notes or in the call of the collaborator) and the exception is swallowed
\* changes no row of documents and no row of chunks: the extracted text and
\* the fragments are as before, and a processed document is still processed.
C9_FinancialFailureSwallowed ==
  [][finErr'.doc \in Docs =>
       /\ documents' = documents
       /\ chunks' = chunks
       /\ (documents[finErr'.doc].exists /\ documents[finErr'.doc].status = "processed") =>
            /\ documents'[finErr'.doc].status = "processed"
            /\ documents'[finErr'.doc].texto_extraido = documents[finErr'.doc].texto_extraido]_vars

\* The lookup of the case has raised in process_document, for a processed
\* document that has chunks.
C9_Witness ==
  /\ finErr.doc \in Docs
  /\ finErr.by = "process_document"
  /\ finErr.exc = "lookup"
  /\ documents[finErr.doc].status = "processed"
  /\ chunks[finErr.doc] # <<>>

\* The same for update_document, and for the read of the notes of a case
\* that exists.
C9_WitnessUpdate ==
  /\ finErr.doc \in Docs
  /\ finErr.by = "update_document"
  /\ finErr.exc = "contexto"
  /\ documents[finErr.doc].status = "processed"

\* C10: an update_document request calls the financial collaborator (once,
\* in its last step) exactly when the request set a financial category, the
\* category before it was not financial and the refreshed row has status
\* processed: a request that ends after its refresh has not met that
\* condition, a request that goes on to the financial step makes the call,
\* and no other step makes one; a request with an empty payload, which ends
\* where it starts, never calls it.
C10_UpdateInvokesOnce ==
  [][/\ finCall'.by = "update_document" =>
          \E r \in Patches : upd[r].pc = "analyzing" /\ upd'[r].pc = "idle"
     /\ \A r \in Patches :
          /\ (upd[r].pc = "committed" /\ upd'[r].pc = "idle") =>
               ~(/\ upd[r].new_tipo \in FinancialTypes
                 /\ upd[r].old_tipo \notin FinancialTypes
                 /\ documents[upd[r].doc].exists
                 /\ documents[upd[r].doc].status = "processed")
          /\ (upd[r].pc = "analyzing" /\ upd'[r].pc = "idle") =>
               finCall' = [doc |-> upd[r].doc, by |-> "update_document"]]_vars

\* The half of C10 that every request keeps: only the financial step of a
\* request calls the collaborator, and a request gets to that step only when
\* it set a financial category and the category before it was not financial.
C10_InvokesOnlyWhenConditionHolds ==
  [][/\ finCall'.by = "update_document" =>
          \E r \in Patches : /\ upd[r].pc = "analyzing" /\ upd'[r].pc = "idle"
                              /\ finCall'.doc = upd[r].doc
     /\ \A r \in Patches :
          upd'[r].pc = "analyzing" =>
            /\ upd'[r].new_tipo \in FinancialTypes
            /\ upd'[r].old_tipo \notin FinancialTypes]_vars

\* ------------------------------------------------- properties of the chat
\* The case of the document a chunk id / a document id belongs to.
CaseOfDoc(d) == documents[d].processo_id
AssistantRows == {i \in DOMAIN messages : messages[i].role = "assistant"}
HasDone(emitted) == \E i \in DOMAIN emitted : EventName(emitted[i]) = "done"

\* C3: on each channel the rows retrieved for a request, the chunk ids and
\* sources of its result, and the chunk ids and sources of every stored
\* assistant message, are of documents of the case of the conversation.
C3_ChatScopedToCase ==
  /\ \A i \in AssistantRows :
       LET m == messages[i]
           caso == conversations[m.conversation_id].processo_id
       IN /\ m.chunks_usados # <<>> =>
               \A k \in DOMAIN m.chunks_usados[1] : CaseOfDoc(m.chunks_usados[1][k][1]) = caso
          /\ m.sources # <<>> =>
               \A k \in DOMAIN m.sources[1] :
                  CaseOfDoc(UUID(m.sources[1][k].documento_id)) = caso
  /\ chat.kind # "none" =>
       LET caso == conversations[chat.conv].processo_id
       IN /\ \A k \in DOMAIN chat.rows : CaseOfDoc(UUID(chat.rows[k].documento_id)) = caso
          /\ chat.rag_result_data # <<>> =>
               LET data == chat.rag_result_data[1]
               IN /\ \A k \in DOMAIN data.chunks_used :
                        CaseOfDoc(UUID(data.chunks_used[k])[1]) = caso
                  /\ \A k \in DOMAIN data.sources :
                        CaseOfDoc(UUID(data.sources[k].documento_id)) = caso

\* The Telegram handler has stored an answer that cites chunks, while the
\* other case holds chunks as similar to the query.
C3_Witness ==
  /\ chat.kind = "telegram" /\ chat.pc = "returned"
  /\ \E i \in AssistantRows :
       /\ messages[i].req = served
       /\ messages[i].chunks_usados # <<>>
       /\ Len(messages[i].chunks_usados[1]) = 2
  /\ \E d \in CorpusDocs :
       /\ CaseOfDoc(d) # conversations[chat.conv].processo_id
       /\ \E k \in DOMAIN chunks[d] :
            Similarity(embed_query(chat.query), chunks[d][k].embedding) >= SIMILARITY_THRESHOLD

\* What is stored for the requests: at most one assistant message each; the
\* one of a streaming request only after the done event was yielded, with the
\* answer, token counts, cost, chunk ids and sources of that event's payload;
\* and the user message of a streaming request as long as its conversation
\* exists.
StoredForRequests ==
  /\ \A r \in 1..served :
       Cardinality({i \in AssistantRows : messages[i].req = r}) <= 1
  /\ chat.kind = "stream" =>
       /\ conv_table[chat.conv].exists =>
            \E i \in DOMAIN messages :
              messages[i] = UserMessage(chat.conv, served, chat.query)
       /\ \A i \in AssistantRows :
            messages[i].req = served =>
              /\ HasDone(chat.emitted)
              /\ LET data == DataOf(chat.emitted[Len(chat.emitted)])
                 IN /\ messages[i].conversation_id = chat.conv
                    /\ messages[i].content = data.answer
                    /\ messages[i].tokens_input = <<data.tokens_input>>
                    /\ messages[i].tokens_output = <<data.tokens_output>>
                    /\ messages[i].custo_estimado = <<data.cost_usd>>
                    /\ messages[i].chunks_usados =
                         <<[k \in DOMAIN data.chunks_used |-> UUID(data.chunks_used[k])]>>
                    /\ messages[i].sources =
                         <<[k \in DOMAIN data.sources |-> SourceInfo(data.sources[k])]>>

C4_WitnessUserMessage ==
  /\ chat.kind = "stream" /\ chat.pc = "raised" /\ chat.exc = "contexto"
  /\ messages = <<UserMessage(chat.conv, served, chat.query)>>

\* C5: a streaming request that has ended, whatever the client did, after
\* chat_stream yielded its done event, has stored the assistant message of
\* that event.
C5_DoneIsPersisted ==
  (chat.kind = "stream" /\ chat.pc \in Ended /\ HasDone(chat.emitted))
    => \E i \in AssistantRows :
         /\ messages[i].req = served
         /\ messages[i].content = DataOf(chat.emitted[Len(chat.emitted)]).answer

\* The name of the i-th event yielded.
NameAt(emitted, i) == EventName(emitted[i])

\* C6: the events chat_stream has yielded are status{searching},
\* status{generating}, token events, then sources, then done, in this order,
\* with nothing after done; a run that returned has yielded all of it, ending
\* with the one done event; a run that raised has yielded no done event.
C6_StreamEventOrder ==
  chat.kind = "stream" =>
    LET emitted == chat.emitted
        n == Len(emitted)
    IN /\ \A i \in 1..n :
            /\ i = 1 => emitted[i] = format_sse("status", [phase |-> "searching"])
            /\ i = 2 => emitted[i] = format_sse("status", [phase |-> "generating"])
            /\ i >= 3 => NameAt(emitted, i) \in {"token", "sources", "done"}
            /\ (i >= 3 /\ NameAt(emitted, i) \in {"token", "sources"}) =>
                 \A j \in 3..(i - 1) : NameAt(emitted, j) = "token"
            /\ (i >= 3 /\ NameAt(emitted, i) = "done") =>
                 /\ i = n
                 /\ i >= 4
                 /\ NameAt(emitted, i - 1) = "sources"
       /\ chat.pc \in {"done", "returned", "unsaved"} =>
            (n >= 4 /\ NameAt(emitted, n) = "done")
       /\ chat.pc = "raised" => ~HasDone(emitted)

\* A run that completed after yielding two token events.
C6_Witness ==
  /\ chat.kind = "stream" /\ chat.pc \in {"done", "unsaved"}
  /\ Len(chat.emitted) = 6
  /\ NameAt(chat.emitted, 3) = "token" /\ NameAt(chat.emitted, 4) = "token"
  /\ NameAt(chat.emitted, 5) = "sources" /\ NameAt(chat.emitted, 6) = "done"

\* A run that failed after yielding a token event.
C6_WitnessFailed ==
  /\ chat.kind = "stream" /\ chat.pc = "raised"
  /\ Len(chat.emitted) = 3
  /\ NameAt(chat.emitted, 3) = "token"

\* ------------------------------------ properties of the ingestion pipeline
\* C11: the step of process_document that follows the commit of status
\* processed calls the financial collaborator for the document exactly when
\* the category of the document is a financial one: it is called for a
\* financial category and it is not called for any other.
C11_ProcessedFinancialInvoked ==
  [][\A d \in Docs :
       (pc[d] = "stored" /\ pc'[d] # "stored" /\ documents[d].exists
          /\ documents[d].status = "processed")
         => ((finCall' = [doc |-> d, by |-> "process_document"])
               <=> documents[d].tipo \in FinancialTypes)]_vars

\* A text that is empty or whitespace only: every unit of it is blank.
IsBlank(text) == \A i \in 1..Len(text) : text[i].tok = 0

\* C12: when the extracted text is blank, so that the chunker yields no chunk,
\* process_document builds no Chunk and makes no call of the embedding service,
\* and its commit leaves the document with status processed (not error), with
\* the extracted text stored and without any chunk row.
C12_NoChunkIsProcessed ==
  \A d \in Docs :
    (pc[d] \in {"ready", "stored"} /\ documents[d].exists /\ IsBlank(documents[d].arquivo)) =>
      /\ sess[d].embed_calls = 0
      /\ sess[d].pending = <<>>
      /\ chunks[d] = <<>>
      /\ pc[d] = "stored" =>
           /\ documents[d].status = "processed"
           /\ documents[d].error_message = NULL
           /\ documents[d].texto_extraido = <<documents[d].arquivo>>

\* The commit of the no-chunk path has happened.
C12_Witness ==
  \E d \in Docs :
    /\ pc[d] = "stored"
    /\ IsBlank(documents[d].arquivo)
    /\ documents[d].status = "processed"
    /\ documents[d].texto_extraido = <<BlankText>>
    /\ chunks[d] = <<>>

\* C13: a document with status processed has an extracted text (not null), and
\* it has at least one chunk row unless chunk_text cuts no chunk from that text.
C13_ProcessedHasTextAndChunks ==
  \A d \in Docs :
    (documents[d].exists /\ documents[d].status = "processed") =>
      /\ documents[d].texto_extraido # <<>>
      /\ \/ Len(chunks[d]) >= 1
         \/ chunk_text(documents[d].texto_extraido[1]) = <<>>

\* A processed document whose text yields chunks, after its ingestion ended.
C13_Witness ==
  \E d \in Docs :
    /\ pc[d] = "done"
    /\ documents[d].status = "processed"
    /\ documents[d].texto_extraido # <<>>
    /\ chunk_text(documents[d].texto_extraido[1]) # <<>>
    /\ Len(chunks[d]) >= 1

\* C14: once process_document has started for a document (it is past its
\* first commit), the stored status is no longer uploaded; and once the
\* ingestion task of the document has ended, the stored status is processed or
\* error, never uploaded or processing.
C14_IngestionEndsProcessedOrError ==
  \A d \in Docs :
    documents[d].exists =>
      /\ pc[d] \notin {"none", "unqueued", "queued", "loaded"} =>
           documents[d].status # "uploaded"
      /\ pc[d] = "done" => documents[d].status \in {"processed", "error"}

\* C15: right after the storing commit of a successful run of
\* process_document, the chunk rows of the document are exactly the chunks of
\* that run: one row per chunk, at positions 0..n-1 in chunk order (so no
\* position twice), each with the content of its chunk; rows that the document
\* had before the run are not among them.
C15_FragmentsAreThoseOfTheRun ==
  \A d \in Docs :
    (pc[d] \in {"stored", "analyzed"} /\ documents[d].exists) =>
      /\ Len(chunks[d]) = Len(sess[d].chunks_data)
      /\ \A i \in 1..Len(chunks[d]) :
           /\ chunks[d][i].posicao = i - 1
           /\ i <= Len(sess[d].chunks_data)
                => chunks[d][i].conteudo = sess[d].chunks_data[i].conteudo
      /\ \A i, j \in 1..Len(chunks[d]) :
           chunks[d][i].posicao = chunks[d][j].posicao => i = j

\* A run has stored the two chunks of its text.
C15_Witness ==
  \E d \in Docs :
    /\ pc[d] = "stored" /\ documents[d].exists
    /\ documents[d].status = "processed"
    /\ Len(sess[d].chunks_data) = 2
    /\ Len(chunks[d]) = 2
    /\ chunks[d][1].posicao = 0 /\ chunks[d][2].posicao = 1

\* C16: when a service call of generate_embeddings raised during the
\* ingestion of a document (whichever batch it was), the call has handed no
\* vector to process_document: no Chunk was built, and the document has no
\* chunk row, not even for the batches that had succeeded before.
C16_FailedBatchStoresNothing ==
  \A d \in Docs :
    (sess[d].failing # 0 \/ sess[d].raised = "embed") =>
      /\ sess[d].raised = "embed"
      /\ sess[d].pending = <<>>
      /\ chunks[d] = <<>>
      /\ documents[d].exists => documents[d].status \in {"error", "processing"}

\* The third batch raised after two batches had succeeded, the error is
\* recorded and no chunk row exists.
C16_Witness ==
  \E d \in Docs :
    /\ sess[d].raised = "embed"
    /\ sess[d].failing = 3
    /\ pc[d] = "done"
    /\ documents[d].status = "error"
    /\ Len(chunk_text(documents[d].arquivo)) > 2 * batch_size
    /\ chunks[d] = <<>>

\* ---------------------------------- properties of generate_embeddings
\* C17: a call of generate_embeddings that returns gives one vector per input
\* text, the i-th being the embedding of the i-th text, whatever the length of
\* the input and wherever the batches of 100 end; it has made the least number
\* of service calls of 100 texts that covers the input (ceil(n / 100)), none
\* and the empty list for the empty input.
C17_OneVectorPerTextInOrder ==
  (fn.op = "generate_embeddings" /\ fn.done /\ ~fn.result[1].raised) =>
    LET n == Len(fn.texts)
        r == fn.result[1]
    IN /\ Len(r.embeddings) = n
       /\ \A i \in 1..n : r.embeddings[i] = EmbeddingsCreate(<< fn.texts[i] >>)[1]
       /\ r.calls * 100 >= n
       /\ (r.calls - 1) * 100 < n
       /\ n = 0 => (r.calls = 0 /\ r.embeddings = <<>>)

\* A call over three batches, the last of a single text, has returned.
C17_Witness ==
  /\ fn.op = "generate_embeddings"
  /\ fn.done
  /\ ~fn.result[1].raised
  /\ Len(fn.texts) = 201
  /\ fn.result[1].calls = 3
  /\ Len(fn.result[1].embeddings) = 201

\* ------------------------------------------- properties of chunk_text
\* The units of a text that are not blank, in input order.
NonBlank(text) == SelectSeq(text, LAMBDA s : s.tok # 0)

\* The units of chunk k that no earlier chunk holds: the chunk without the
\* overlap seed it inherited (units are numbered in input order).
OwnUnits(chunks_data, k) ==
  SelectSeq(chunks_data[k].conteudo,
            LAMBDA s : \A j \in 1..(k - 1) :
                         \A u \in 1..Len(chunks_data[j].conteudo) :
                           chunks_data[j].conteudo[u] # s)

\* The number of units of chunk k that are not its own, and whether they are
\* an overlap seed: the first units of chunk k, equal to the last units of
\* chunk k - 1.
SeedLen(chunks_data, k) == Len(chunks_data[k].conteudo) - Len(OwnUnits(chunks_data, k))

IsSeeded(chunks_data, k) ==
  LET m == SeedLen(chunks_data, k)
  IN IF k = 1 THEN m = 0
     ELSE LET A == chunks_data[k - 1].conteudo
              B == chunks_data[k].conteudo
          IN /\ m <= Len(A)
             /\ SubSeq(B, 1, m) = SubSeq(A, Len(A) - m + 1, Len(A))

RECURSIVE OwnUnitsFrom(_, _)
OwnUnitsFrom(chunks_data, k) ==
  IF k > Len(chunks_data) THEN <<>>
  ELSE OwnUnits(chunks_data, k) \o OwnUnitsFrom(chunks_data, k + 1)

\* C18: the chunks that chunk_text returns, each without the overlap seed it
\* inherited, hold every non-blank unit of the input exactly once and in input
\* order; what a chunk holds besides is its seed, the last units of the chunk
\* before it.
C18_ChunksCoverEveryUnitOnce ==
  (fn.op = "chunk_text" /\ fn.done) =>
    /\ OwnUnitsFrom(fn.result, 1) = NonBlank(fn.text)
    /\ \A k \in 1..Len(fn.result) : IsSeeded(fn.result, k)

\* A text with a blank unit was cut into two chunks, the second starting with
\* a unit of the first.
C18_Witness ==
  /\ fn.op = "chunk_text" /\ fn.done
  /\ \E i \in 1..Len(fn.text) : fn.text[i].tok = 0
  /\ Len(fn.result) = 2
  /\ fn.result[2].conteudo[1] = fn.result[1].conteudo[Len(fn.result[1].conteudo)]
  /\ Len(fn.result[2].conteudo) = 2

\* C19: the token counts of the units of a chunk (overlap seed included) add
\* up to at most CHUNK_SIZE, except for a chunk that is a single unit of more
\* than CHUNK_SIZE tokens.
C19_ChunkWithinBudget ==
  (fn.op = "chunk_text" /\ fn.done) =>
    \A k \in 1..Len(fn.result) :
      LET units == fn.result[k].conteudo
      IN \/ SumTok(units) <= CHUNK_SIZE
         \/ Len(units) = 1 /\ units[1].tok > CHUNK_SIZE

\* The tokens that chunk k + 1 shares with chunk k.
SharedTokens(chunks_data, k) ==
  SumTok(SubSeq(chunks_data[k + 1].conteudo, 1, SeedLen(chunks_data, k + 1)))

\* C20 as stated: when there is more than one chunk, a chunk and its successor
\* share at least min(CHUNK_OVERLAP, available) tokens, available being the
\* token count of the earlier chunk.
C20_SharesAtLeastOverlap ==
  (fn.op = "chunk_text" /\ fn.done /\ Len(fn.result) > 1) =>
    \A k \in 1..(Len(fn.result) - 1) :
      /\ IsSeeded(fn.result, k + 1)
      /\ SharedTokens(fn.result, k) >= Min(CHUNK_OVERLAP, SumTok(fn.result[k].conteudo))

\* C20 as the code has it: a chunk starts with the longest run of last units of
\* its predecessor whose token counts add up to at most CHUNK_OVERLAP (no unit
\* at all when the last one alone exceeds it), followed by a unit of its own.
C20_SeedIsLongestWithinOverlap ==
  (fn.op = "chunk_text" /\ fn.done /\ Len(fn.result) > 1) =>
    \A k \in 1..(Len(fn.result) - 1) :
      LET A == fn.result[k].conteudo
          m == SeedLen(fn.result, k + 1)
      IN /\ IsSeeded(fn.result, k + 1)
         /\ m < Len(fn.result[k + 1].conteudo)
         /\ SharedTokens(fn.result, k) <= CHUNK_OVERLAP
         /\ m < Len(A) => SharedTokens(fn.result, k) + A[Len(A) - m].tok > CHUNK_OVERLAP

\* A chunk of three units is followed by a chunk that starts with its last
\* two units, which add up to fewer tokens than CHUNK_OVERLAP, while the three
\* together exceed it.
C20_Witness ==
  /\ fn.op = "chunk_text" /\ fn.done
  /\ Len(fn.result) = 2
  /\ Len(fn.result[1].conteudo) = 3
  /\ SeedLen(fn.result, 2) = 2
  /\ SharedTokens(fn.result, 1) < CHUNK_OVERLAP
  /\ SumTok(fn.result[1].conteudo) > CHUNK_OVERLAP

\* A seed of two units that add up to CHUNK_OVERLAP exactly.
C20_WitnessAtOverlap ==
  /\ fn.op = "chunk_text" /\ fn.done
  /\ Len(fn.result) >= 2
  /\ SeedLen(fn.result, 2) = 2
  /\ SharedTokens(fn.result, 1) = CHUNK_OVERLAP

\* A chunk whose last unit, of CHUNK_SIZE tokens, alone exceeds CHUNK_OVERLAP
\* is followed by a chunk that shares nothing with it.
C20_WitnessNoSeed ==
  /\ fn.op = "chunk_text" /\ fn.done
  /\ Len(fn.result) >= 2
  /\ SeedLen(fn.result, 2) = 0
  /\ fn.result[1].conteudo[Len(fn.result[1].conteudo)].tok = CHUNK_SIZE

\* ------------------------------------------- properties of stored fragments
\* C26: in every state the chunk rows are rows of existing documents: a
\* document that does not exist (never uploaded, or deleted) has no chunk row,
\* whether or not an ingestion of it was in flight when it was deleted.
C26_ChunksBelongToDocuments ==
  \A d \in Docs :
    /\ ~documents[d].exists => chunks[d] = <<>>
    /\ \A i \in 1..Len(chunks[d]) : chunks[d][i].documento_id = d

\* A document was deleted after its ingestion had built its Chunk objects and
\* before the storing commit; the commit raised and the task has ended.
C26_Witness ==
  \E d \in Docs :
    /\ ~documents[d].exists
    /\ pc[d] = "done"
    /\ sess[d].raised = "store"
    /\ chunk_text(TwoChunkText) # <<>>
    /\ chunks[d] = <<>>

\* C28: every chunk row of a document carries, in its metadata snapshot, the
\* category and the title the document has now (the snapshot follows update_document, also
\* for chunks that an ingestion in flight during the update stores later); and
\* the step of update_document changes nothing else of a chunk row.
C28_SnapshotFollowsDocument ==
  \A d \in Docs :
    documents[d].exists =>
      \A i \in 1..Len(chunks[d]) :
        /\ chunks[d][i].doc_tipo = documents[d].tipo
        /\ chunks[d][i].doc_titulo = documents[d].titulo

\* The half of C28 that holds: the step in which update_document commits
\* changes no content, position, token count or embedding of a chunk row, and
\* sets the snapshot of every chunk row stored at that time to the new category
\* and the new title.
C28_UpdateKeepsChunkContent ==
  [][\A r \in Patches :
       (upd[r].pc = "loaded" /\ upd'[r].pc = "committed") =>
         LET d == upd[r].doc
         IN /\ Len(chunks'[d]) = Len(chunks[d])
            /\ \A i \in 1..Len(chunks[d]) :
                 /\ chunks'[d][i].conteudo = chunks[d][i].conteudo
                 /\ chunks'[d][i].posicao = chunks[d][i].posicao
                 /\ chunks'[d][i].token_count = chunks[d][i].token_count
                 /\ chunks'[d][i].embedding = chunks[d][i].embedding
                 /\ upd[r].new_tipo # NULL => chunks'[d][i].doc_tipo = upd[r].new_tipo
                 /\ upd[r].new_titulo # NULL =>
                      chunks'[d][i].doc_titulo = upd[r].new_titulo]_vars

\* =====================================================================
\* Title generation
\* =====================================================================
MaxTasks == 2

\* `if conversation.titulo and conversation.titulo != "Nova conversa"`.
HasTitle(titulo) == titulo # <<>> /\ titulo[1] # <<>> /\ titulo[1] # NovaConversa

\* The questions (the argument content) and their code points.
LongQuestion == "AAAAAAAAAAAAAAAAAAAAAAAAAAAAAAAAAAAAAAAAAAAAAAAAAAAAAAAAAAAAA"
TitleQuestions == {"A", " A", LongQuestion}
Chars(text) ==
  CASE text = LongQuestion -> [i \in 1..61 |-> 65]
    [] text = " A" -> <<32, 65>>
    [] OTHER -> <<65>>

\* content[:60].
First60(content) == SubSeq(content, 1, Min(60, Len(content)))

\* str.strip(): the text without its leading and trailing whitespace, the
\* characters of str.isspace: U+0009..U+000D, U+001C..U+001F, U+0020, U+0085,
\* U+00A0, U+1680, U+2000..U+200A, U+2028, U+2029, U+202F, U+205F, U+3000.
Whitespace ==
  (9..13) \cup (28..32) \cup {133, 160, 5760} \cup (8192..8202)
    \cup {8232, 8233, 8239, 8287, 12288}
RECURSIVE strip(_)
strip(text) ==
  IF text = <<>> THEN text
  ELSE IF text[1] \in Whitespace THEN strip(Tail(text))
  ELSE IF text[Len(text)] \in Whitespace THEN strip(SubSeq(text, 1, Len(text) - 1))
  ELSE text

\* What the title model may return: a title ("Titulo"), a title followed by
\* a blank or by a no-break space, preceded by a form feed or by a vertical
\* tab and a file separator, with a next-line character and a zero-width
\* space (which is no whitespace) around it, blanks only, or nothing.
TituloGerado == <<84, 105, 116, 117, 108, 111>>
RawTitles == {TituloGerado, Append(TituloGerado, 32), Append(TituloGerado, 160),
              <<12>> \o TituloGerado, <<11, 28>> \o TituloGerado,
              <<133>> \o TituloGerado \o <<8203>>, <<32, 32>>, <<>>}

\* A call _generate_title(conversation_id, content), lines 26-31, not yet at
\* its SELECT.  asyncio.create_task starts it at chat_routes.py 341 and 462,
\* lines that no request of this source gets to (see send_message_commit and
\* StreamPersist): the coroutine is studied as the function it is, called
\* with a conversation id and a question.
TitleTask(conv, content) ==
  [conversation_id |-> conv, content |-> content, pc |-> "created", seen |-> <<>>]

\* _generate_title, lines 32-43: the task opens its own session and loads
\* the conversation; it stops when there is none or when it has a title. When
\* the SELECT raises, the handler of line 62 assigns to the attribute of a
\* name that was never bound: the task ends with that error, nothing written.
TitleLoad(i, ok) ==
  /\ i \in DOMAIN title_tasks
  /\ title_tasks[i].pc = "created"
  /\ LET c == title_tasks[i].conversation_id
     IN title_tasks' =
          [title_tasks EXCEPT ![i] =
             IF ~ok THEN [@ EXCEPT !.pc = "failed"]
             ELSE IF ~conv_table[c].exists \/ HasTitle(conv_table[c].titulo)
             THEN [@ EXCEPT !.pc = "done"]
             ELSE [@ EXCEPT !.pc = "generating", !.seen = conv_table[c].titulo]]
  /\ UNCHANGED <<lifeVars, chatVars, conv_table, selected, commands, processos>>

\* _generate_title, lines 45-67: the title model has answered (ok) or raised.
\* An answer, or the first 60 characters of the question when the answer is
\* empty, is stripped, written to the loaded row and committed (lines 60-61);
\* when the title model or that commit raises, the handler writes the first
\* 60 characters of the question, not stripped, and commits again (lines
\* 63-65), and a failure of this commit is dropped.  `failing` is the number
\* of commits that raise.  An UPDATE is emitted when the value differs from
\* the loaded one (always after a commit that raised, which expires the loaded
\* row); it matches no row when the conversation was deleted, and that commit
\* raises.
TitleFinish(i, ok, raw_title, failing) ==
  /\ i \in DOMAIN title_tasks
  /\ title_tasks[i].pc = "generating"
  /\ LET c == title_tasks[i].conversation_id
         content == Chars(title_tasks[i].content)
         stripped == strip(IF raw_title # <<>> THEN raw_title ELSE First60(content))
         first == ok /\ failing = 0
         second == IF ok THEN failing = 1 ELSE failing = 0
     IN conv_table' =
          IF ~conv_table[c].exists THEN conv_table
          ELSE IF first
          THEN IF <<stripped>> # title_tasks[i].seen
               THEN [conv_table EXCEPT ![c].titulo = <<stripped>>, ![c].updated_at = utcnow]
               ELSE conv_table
          ELSE IF second /\ (ok \/ <<First60(content)>> # title_tasks[i].seen)
          THEN [conv_table EXCEPT ![c].titulo = <<First60(content)>>,
                                  ![c].updated_at = utcnow]
          ELSE conv_table
  /\ title_tasks' = [title_tasks EXCEPT ![i].pc = "done"]
  /\ UNCHANGED <<lifeVars, chatVars, selected, commands, processos>>

\* The titles a user gives a conversation ("Meu").
UserTitles == {<<77, 101, 117>>}

\* update_conversation, lines 199-234: the title of the payload is written
\* and committed.
update_conversation(conv, titulo) ==
  /\ conv_table[conv].exists
  /\ conv_table[conv].titulo # <<titulo>>
  /\ conv_table' = [conv_table EXCEPT ![conv].titulo = <<titulo>>, ![conv].updated_at = utcnow]
  /\ UNCHANGED <<lifeVars, chatVars, title_tasks, selected, commands, processos>>

\* The conversations of this specification: one without a title, one with
\* the default title.
TitleConvs == {1, 2}

\* The calls of _generate_title of a run, at most MaxTasks: each for one of
\* the stored conversations, with one of the questions.
InitTitle ==
  /\ documents = [d \in CorpusDocs |-> CorpusDoc(d)]
  /\ chunks = [d \in CorpusDocs |-> CorpusChunks(d)]
  /\ pc = [d \in CorpusDocs |-> "done"]
  /\ sess = [d \in CorpusDocs |-> NoSess]
  /\ attempts = [d \in CorpusDocs |-> 1]
  /\ upd = NoPatch
  /\ finCall = NoCall
  /\ finErr = NoErr
  /\ lastSearch = NoSearch
  /\ messages = <<>>
  /\ chat = NoChat
  /\ served = 0
  /\ fn = NoFn
  /\ conv_table = [c \in Convs |-> StoredConv(c)]
  /\ \E n \in 1..MaxTasks : \E call \in [1..n -> TitleConvs \X TitleQuestions] :
       title_tasks = [i \in 1..n |-> TitleTask(call[i][1], call[i][2])]
  /\ selected = 0
  /\ commands = <<>>
  /\ processos = StoredProcessos

\* The calls run while the user renames and deletes conversations.
NextTitle ==
  \/ \E i \in 1..MaxTasks, ok \in BOOLEAN : TitleLoad(i, ok)
  \/ \E i \in 1..MaxTasks, ok \in BOOLEAN, raw_title \in RawTitles, failing \in 0..2 :
       TitleFinish(i, ok, raw_title, failing)
  \/ \E conv \in TitleConvs, titulo \in UserTitles : update_conversation(conv, titulo)
  \/ \E conv \in TitleConvs : delete_conversation(conv)

SpecTitle == InitTitle /\ [][NextTitle]_vars

\* =====================================================================
\* Conversations that already hold messages
\* =====================================================================
MaxHistory == 21

\* The contents of stored questions; a stored answer repeats its question.
Perguntas == <<"p1", "p2", "p3", "p4", "p5", "p6", "p7", "p8", "p9", "p10", "p11", "p12">>

\* The i-th stored message of a conversation: questions and answers alternate.
StoredMessage(conv, i) ==
  IF i % 2 = 1
  THEN UserMessage(conv, 0, Perguntas[(((i - 1) \div 2) % Len(Perguntas)) + 1])
  ELSE AssistantMessage(conv, 0,
                        ResultData(<<"a", Perguntas[(((i - 1) \div 2) % Len(Perguntas)) + 1]>>,
                                   <<>>, 0, 0),
                        CanalDe(conv) = "web")

\* The conversations of this specification: one of the web, one of Telegram.
HistoryConvs == {1, 3}

InitHistory ==
  /\ documents = [d \in CorpusDocs |-> CorpusDoc(d)]
  /\ chunks = [d \in CorpusDocs |-> CorpusChunks(d)]
  /\ pc = [d \in CorpusDocs |-> "done"]
  /\ sess = [d \in CorpusDocs |-> NoSess]
  /\ attempts = [d \in CorpusDocs |-> 1]
  /\ upd = NoPatch
  /\ finCall = NoCall
  /\ finErr = NoErr
  /\ lastSearch = NoSearch
  /\ \E conv \in HistoryConvs, n \in 0..MaxHistory :
       messages = [i \in 1..n |-> StoredMessage(conv, i)]
  /\ chat = NoChat
  /\ served = 0
  /\ fn = NoFn
  /\ conv_table = [c \in Convs |-> StoredConv(c)]
  /\ title_tasks = <<>>
  /\ selected = 0
  /\ commands = <<>>
  /\ processos = StoredProcessos

NextHistory ==
  \/ \E conv \in HistoryConvs : send_message_start(conv, "A")
  \/ send_message_contexto(TRUE)
  \/ \E conv \in HistoryConvs : send_message_stream_start(conv, "A")
  \/ send_message_stream_contexto(TRUE)
  \/ handle_message_start("A")
  \/ handle_message_typing(TRUE)
  \/ chat_search("ok")
  \/ chat_generate(TRUE, <<"a">>)
  \/ handle_message_commit(TRUE)
  \/ handle_message_reply(TRUE)

SpecHistory == InitHistory /\ [][NextHistory]_vars

\* =====================================================================
\* The Telegram commands
\* =====================================================================
\* The time of a commit that writes a case row (default and onupdate of
\* Processo.updated_at): later than every stored one.
RECURSIVE MaxProcessoUpdatedAt(_)
MaxProcessoUpdatedAt(P) ==
  IF P = {} THEN 0
  ELSE LET p == CHOOSE x \in P : TRUE
           rest == MaxProcessoUpdatedAt(P \ {p})
       IN IF processos[p].updated_at > rest THEN processos[p].updated_at ELSE rest
ProcessoNow == MaxProcessoUpdatedAt(ProcessoIds) + 1

\* The writes to table processos that a run makes after the stored cases.
MaxUpdates == 1
MayWriteProcesso == ProcessoNow <= Cardinality(TodosProcessos) + MaxUpdates

\* create_processo, processo_routes.py lines 98-122: a new row (a new id,
\* status ativo by default) with the title of the request, committed.  When
\* the commit raises nothing is stored.
create_processo(titulo, commitOk) ==
  /\ MayWriteProcesso
  /\ \E p \in ProcessoIds :
       /\ processos[p].updated_at = 0
       /\ \A x \in ProcessoIds : x < p => processos[x].updated_at # 0
       /\ processos' = IF commitOk
                       THEN [processos EXCEPT ![p] = [exists |-> TRUE, status |-> "ativo",
                                                      titulo |-> titulo,
                                                      updated_at |-> ProcessoNow]]
                       ELSE processos
  /\ UNCHANGED <<lifeVars, chatVars, conv_table, title_tasks, selected, commands>>

\* update_processo, lines 125-154: the fields of the request that are set are
\* written and committed; the UPDATE, and with it onupdate of updated_at, is
\* emitted when a column changes.  `outro` says that numero or descricao is
\* given a new value; `titulo` is <<>> (not set) or <<text>>.
update_processo(caso, titulo, status, outro, commitOk) ==
  /\ Existe(caso)
  /\ MayWriteProcesso
  /\ LET row == processos[caso]
         new == [row EXCEPT !.titulo = IF titulo = <<>> THEN @ ELSE titulo[1],
                            !.status = IF status = NULL THEN @ ELSE status]
     IN processos' = IF commitOk /\ (new # row \/ outro)
                     THEN [processos EXCEPT ![caso] = [new EXCEPT !.updated_at = ProcessoNow]]
                     ELSE processos
  /\ UNCHANGED <<lifeVars, chatVars, conv_table, title_tasks, selected, commands>>

\* The active cases of the user, most recently updated first, ten at most
\* (lines 167-173): the SELECT reads the table as it is now.
RECURSIVE ByUpdatedAt(_)
ByUpdatedAt(P) ==
  IF P = {} THEN <<>>
  ELSE LET p == CHOOSE x \in P : \A y \in P : processos[y].updated_at <= processos[x].updated_at
       IN <<p>> \o ByUpdatedAt(P \ {p})
Processos ==
  LET rows == ByUpdatedAt({p \in ProcessoIds : Existe(p) /\ processos[p].status = "ativo"})
  IN SubSeq(rows, 1, Min(10, Len(rows)))

\* Lines 182-192: the user's Telegram conversation of the case that was
\* updated last (0: there is none).
TelegramConvsOf(caso) == {c \in TelegramConvs : conversations[c].processo_id = caso}
TelegramConvOf(caso) ==
  IF TelegramConvsOf(caso) = {} THEN 0
  ELSE CHOOSE c \in TelegramConvsOf(caso) :
         \A x \in TelegramConvsOf(caso) : conv_table[x].updated_at <= conv_table[c].updated_at

\* The '/selecionar n' commands being handled at once.
MaxCommands == 2
Without(seq, i) == SubSeq(seq, 1, i - 1) \o SubSeq(seq, i + 1, Len(seq))

\* _handle_selecionar, lines 145-179: '/selecionar n'.  The SELECT of the
\* cases may raise; a number outside the list is answered with an error;
\* otherwise the handler holds the case object and awaits the SELECT of the
\* conversation.  `outcome` "reply" is the error reply raising.
handle_selecionar_start(n, outcome) ==
  /\ Len(commands) < MaxCommands
  /\ LET idx == n - 1
     IN IF outcome = "select" \/ idx < 0 \/ idx >= Len(Processos)
        THEN /\ outcome \in {"ok", "select", "reply"}
             /\ UNCHANGED commands
        ELSE /\ outcome = "ok"
             /\ commands' = Append(commands, [pc |-> "lookup", processo |-> Processos[idx + 1],
                                              titulo |-> processos[Processos[idx + 1]].titulo])
  /\ UNCHANGED <<lifeVars, chatVars, conv_table, title_tasks, selected, processos>>

\* Lines 182-194: the SELECT of the user's Telegram conversation of the case
\* has answered (or raised): an existing conversation is left as it is, and a
\* new one is to be inserted when there is none.
handle_selecionar_lookup(i, ok) ==
  /\ i \in DOMAIN commands
  /\ commands[i].pc = "lookup"
  /\ commands' = IF ~ok THEN Without(commands, i)
                 ELSE [commands EXCEPT ![i].pc =
                         IF TelegramConvOf(commands[i].processo) # 0 THEN "reply" ELSE "insert"]
  /\ UNCHANGED <<lifeVars, chatVars, conv_table, title_tasks, selected, processos>>

\* What may raise at lines 202-203: the commit of the new conversation (as it
\* does when the case was deleted meanwhile) or its refresh.
InsertOutcomes == {"ok", "commit", "refresh"}

\* Lines 195-203: the new Conversation, titled after the case object, is
\* committed and refreshed.
handle_selecionar_commit(i, outcome) ==
  /\ i \in DOMAIN commands
  /\ commands[i].pc = "insert"
  /\ outcome # "commit" => (Existe(commands[i].processo) /\ NewId \in Convs)
  /\ conv_table' =
       IF outcome = "commit" THEN conv_table
       ELSE [conv_table EXCEPT ![NewId] = [exists |-> TRUE,
                                           processo_id |-> commands[i].processo,
                                           canal |-> "telegram",
                                           titulo |-> <<TelegramTitulo(commands[i].titulo)>>,
                                           updated_at |-> utcnow]]
  /\ commands' = IF outcome = "ok" THEN [commands EXCEPT ![i].pc = "reply"]
                 ELSE Without(commands, i)
  /\ UNCHANGED <<lifeVars, chatVars, title_tasks, selected, processos>>

\* Line 207: the reply 'Processo selecionado'.  Nothing is stored; `selected`
\* records the case of the last command that was answered so.
handle_selecionar_reply(i, ok) ==
  /\ i \in DOMAIN commands
  /\ commands[i].pc = "reply"
  /\ selected' = IF ok THEN commands[i].processo ELSE selected
  /\ commands' = Without(commands, i)
  /\ UNCHANGED <<lifeVars, chatVars, conv_table, title_tasks, processos>>

\* The user has no Telegram conversation yet.
InitTelegram ==
  /\ documents = [d \in CorpusDocs |-> CorpusDoc(d)]
  /\ chunks = [d \in CorpusDocs |-> CorpusChunks(d)]
  /\ pc = [d \in CorpusDocs |-> "done"]
  /\ sess = [d \in CorpusDocs |-> NoSess]
  /\ attempts = [d \in CorpusDocs |-> 1]
  /\ upd = NoPatch
  /\ finCall = NoCall
  /\ finErr = NoErr
  /\ lastSearch = NoSearch
  /\ messages = <<>>
  /\ chat = NoChat
  /\ served = 0
  /\ fn = NoFn
  /\ conv_table = [c \in Convs |-> IF CanalDe(c) = "telegram" THEN NoConv
                                   ELSE StoredConv(c)]
  /\ title_tasks = <<>>
  /\ selected = 0
  /\ commands = <<>>
  /\ processos = StoredProcessos

\* The commands and one message of the Telegram user, while web requests
\* write the cases (a new case; case 2 edited) and delete cases and
\* conversations.  The calls of the message handler return: its failures are
\* those of SpecChat.
NextTelegram ==
  \/ \E n \in 0..3, outcome \in {"ok", "select", "reply"} : handle_selecionar_start(n, outcome)
  \/ \E i \in 1..MaxCommands, ok \in BOOLEAN : handle_selecionar_lookup(i, ok)
  \/ \E i \in 1..MaxCommands, outcome \in InsertOutcomes : handle_selecionar_commit(i, outcome)
  \/ \E i \in 1..MaxCommands, ok \in BOOLEAN : handle_selecionar_reply(i, ok)
  \/ \E commitOk \in BOOLEAN : create_processo(Novo, commitOk)
  \/ \E caso \in {2}, titulo \in {<<>>, <<Novo>>}, status \in {NULL, "ativo", "arquivado"},
        outro \in BOOLEAN, commitOk \in BOOLEAN :
       update_processo(caso, titulo, status, outro, commitOk)
  \/ \E conv \in TelegramConvs : delete_conversation(conv)
  \/ \E caso \in {1, 2} : delete_processo(caso)
  \/ handle_message_start("A")
  \/ handle_message_typing(TRUE)
  \/ chat_search("ok")
  \/ chat_generate(TRUE, <<"a">>)
  \/ handle_message_commit(TRUE)
  \/ handle_message_reply(TRUE)

SpecTelegram == InitTelegram /\ [][NextTelegram]_vars

C21_WitnessEmbed ==
  /\ chat.kind = "blocking" /\ chat.pc = "raised" /\ chat.exc = "embed"

\* ---------------------------------------------------------------------
\* C24: a chat query (chat, called for the web and for Telegram, or
\* chat_stream) against a case that has no processed document, or no fragment
\* at or above the floor, is not an error: the search returns no fragment
\* and does not raise, the evidence block of the prompt is the fixed
\* statement that no relevant document was found, the generation runs on
\* that prompt, and the sources and chunks_used of the result (and of the
\* stored answer) are empty.
NothingToRetrieve(query, caso) ==
  \A d \in DOMAIN documents :
    (documents[d].exists /\ documents[d].processo_id = caso
       /\ documents[d].status = "processed") =>
      \A i \in DOMAIN chunks[d] :
        Similarity(embed_query(query), chunks[d][i].embedding) < SIMILARITY_THRESHOLD

\* The search of the request in progress has returned.
Searched ==
  \/ /\ chat.kind \in {"blocking", "telegram"}
     /\ \/ chat.pc \in {"searched", "answered", "stored", "returned"}
        \/ chat.exc \in {"generate", "commit", "reply"}
  \/ /\ chat.kind = "stream"
     /\ \E i \in DOMAIN chat.emitted :
          chat.emitted[i] = format_sse("status", [phase |-> "generating"])

C24_NoEvidenceIsNotAnError ==
  (Searched /\ NothingToRetrieve(chat.query, conversations[chat.conv].processo_id)) =>
    /\ chat.rows = <<>>
    /\ chat.exc \notin {"embed", "search"}
    /\ chat.prompt # <<>>
    /\ chat.prompt[Len(chat.prompt)].role = "user"
    /\ chat.prompt[Len(chat.prompt)].content.context =
         [statement |-> NoEvidence, parts |-> <<>>]
    /\ chat.prompt[Len(chat.prompt)].content.query = chat.query
    /\ chat.rag_result_data # <<>> =>
         /\ chat.rag_result_data[1].sources = <<>>
         /\ chat.rag_result_data[1].chunks_used = <<>>
    /\ chat.pc \in {"answered", "stored", "returned"} => chat.rag_result_data # <<>>
    /\ \A i \in DOMAIN messages :
         (messages[i].role = "assistant" /\ messages[i].req = served) =>
           /\ messages[i].chunks_usados = << <<>> >>
           /\ messages[i].sources # <<>> => messages[i].sources = << <<>> >>

\* A Telegram question on a case without any document was answered, and the
\* answer is stored.
C24_Witness ==
  /\ chat.kind = "telegram" /\ chat.pc = "returned"
  /\ Existe(conversations[chat.conv].processo_id)
  /\ \A d \in DOMAIN documents :
       documents[d].processo_id # conversations[chat.conv].processo_id
  /\ chat.rag_result_data[1].answer # <<>>
  /\ \E i \in DOMAIN messages : messages[i].role = "assistant" /\ messages[i].req = served

\* A Telegram question that is similar to no fragment of a case that has a
\* processed document was answered.
C24_WitnessBelowFloor ==
  /\ chat.kind = "telegram" /\ chat.pc = "returned"
  /\ \E d \in DOMAIN documents :
       /\ documents[d].processo_id = conversations[chat.conv].processo_id
       /\ documents[d].status = "processed" /\ chunks[d] # <<>>
  /\ NothingToRetrieve(chat.query, conversations[chat.conv].processo_id)
  /\ chat.rag_result_data[1].answer # <<>>

\* chat_stream has yielded its done event for a request whose case, with its
\* documents, was deleted before the search.
C24_WitnessStream ==
  /\ chat.kind = "stream" /\ HasDone(chat.emitted)
  /\ ~Existe(conversations[chat.conv].processo_id)
  /\ chat.full_answer # <<>>
  /\ DataOf(chat.emitted[Len(chat.emitted)]).sources = <<>>

\* ---------------------------------------------------------------------
\* C25: the payload of the done event of chat_stream equals, key by key
\* (answer, chunks_used, sources, tokens_input, tokens_output, cost_usd), the
\* result blocking chat returns for the same retrieved fragments, answer text
\* and usage totals, and both list exactly the retrieved fragments, in rank
\* order: the result a run of chat has returned is what chat_stream sends in
\* its done event for the rows, the answer and the totals of that run, and the
\* done payload a run of chat_stream has sent is what chat returns for the
\* rows, the answer and the totals of that run.
ResultKeys ==
  {"answer", "chunks_used", "sources", "tokens_input", "tokens_output", "cost_usd"}
SourceKeys == {"doc_titulo", "doc_tipo", "similarity", "documento_id"}

\* The two payloads are equal key by key and list the rows in rank order.
SamePayload(done, result, rows) ==
  /\ DOMAIN done = ResultKeys
  /\ DOMAIN result = ResultKeys
  /\ \A k \in ResultKeys : done[k] = result[k]
  /\ Len(done.chunks_used) = Len(rows)
  /\ Len(done.sources) = Len(rows)
  /\ \A i \in DOMAIN rows :
       /\ done.chunks_used[i] = rows[i].id
       /\ DOMAIN done.sources[i] = SourceKeys
       /\ \A k \in SourceKeys : done.sources[i][k] = rows[i][k]
  /\ \A i, j \in DOMAIN rows : i < j => rows[i].similarity >= rows[j].similarity

C25_StreamDoneEqualsBlockingResult ==
  /\ (chat.kind \in {"blocking", "telegram"} /\ chat.rag_result_data # <<>>) =>
       LET result == chat.rag_result_data[1]
           done == DataOf(format_sse("done",
                                     DoneData(result.answer, chat.rows, result.tokens_input,
                                              result.tokens_output)))
       IN SamePayload(done, result, chat.rows)
  /\ (chat.kind = "stream" /\ HasDone(chat.emitted)) =>
       LET done == DataOf(chat.emitted[Len(chat.emitted)])
           result == ResultData(done.answer, chat.rows, done.tokens_input,
                                done.tokens_output)
       IN SamePayload(done, result, chat.rows)

\* chat has returned, to the Telegram handler, a result over two retrieved
\* fragments.
C25_Witness ==
  /\ chat.kind = "telegram" /\ chat.rag_result_data # <<>>
  /\ Len(chat.rows) = 2
  /\ chat.rag_result_data[1].answer # <<>>
  /\ chat.rag_result_data[1].cost_usd > 0

\* chat_stream has yielded its done event after token events and the usage
\* totals.
C25_WitnessStream ==
  /\ chat.kind = "stream" /\ HasDone(chat.emitted)
  /\ chat.full_answer # <<>>
  /\ chat.total_prompt_tokens > 0

\* ---------------------------------------------------------------------
\* C27: chat_stream has yielded one token event for each unit of the
\* generation stream read so far that carries text, in the order received
\* (so each before the next unit is read); the answer of done is the
\* concatenation of the token contents in that order; tokens_input and
\* tokens_output of done are the usage figures of the last unit that carried
\* any, 0 and 0 when none did.
TextUnits(received) == SelectSeq(received, LAMBDA u : u.content # "")
TokenEvents(emitted) == SelectSeq(emitted, LAMBDA e : EventName(e) = "token")
LastUsage(received) ==
  LET U == {i \in DOMAIN received : received[i].usage # <<>>}
  IN IF U = {} THEN [prompt_tokens |-> 0, completion_tokens |-> 0]
     ELSE received[CHOOSE i \in U : \A j \in U : j <= i].usage[1]

C27_TokensInOrderUnbuffered ==
  chat.kind = "stream" =>
    LET units == TextUnits(chat.received)
        events == TokenEvents(chat.emitted)
    IN /\ Len(events) = Len(units)
       /\ \A i \in DOMAIN units :
            events[i] = format_sse("token", [content |-> units[i].content])
       /\ HasDone(chat.emitted) =>
            LET done == DataOf(chat.emitted[Len(chat.emitted)])
            IN /\ done.answer = [i \in DOMAIN events |-> DataOf(events[i]).content]
               /\ done.tokens_input = LastUsage(chat.received).prompt_tokens
               /\ done.tokens_output = LastUsage(chat.received).completion_tokens

\* A text unit has been read and yielded while the stream is still being read
\* and no usage figures have arrived.
C27_Witness ==
  /\ chat.kind = "stream" /\ chat.pc = "streaming"
  /\ Len(TextUnits(chat.received)) = 1
  /\ Len(TokenEvents(chat.emitted)) = 1
  /\ chat.total_prompt_tokens = 0

\* A stream that received no usage figures has yielded done.
C27_WitnessNoUsage ==
  /\ chat.kind = "stream" /\ HasDone(chat.emitted)
  /\ chat.full_answer # <<>>
  /\ \A i \in DOMAIN chat.received : chat.received[i].usage = <<>>

\* ---------------------------------------------------------------------
\* C22: the financial step runs detached from the update_document request
\* that triggers it: when the step runs (here: when it raises), the response
\* of the request has already been produced.  (Title generation is started by
\* no request of this source.)
C22_SideEffectsDetached ==
  [][finErr'.by = "update_document" =>
       \A r \in Patches : upd[r].doc = finErr'.doc => upd'[r] = upd[r]]_vars

\* The other half of C22: the financial step of update_document changes
\* neither the stored document nor its chunks, and the request ends with it.
C22_SideEffectFailureContained ==
  [][\A r \in Patches :
       (upd[r].pc = "analyzing" /\ upd'[r] # upd[r]) =>
         (documents' = documents /\ chunks' = chunks /\ upd'[r] = NoUpd)]_vars

C29_LoadedTitleIsKept ==
  [][\A i \in DOMAIN title_tasks :
       (title_tasks[i].pc = "created" /\ title_tasks'[i].pc # "created"
          /\ HasTitle(conv_table[title_tasks[i].conversation_id].titulo)) =>
         (title_tasks'[i].pc \in {"done", "failed"} /\ conv_table' = conv_table)]_vars

\* ---------------------------------------------------------------------
\* C23: on every channel the prompt of a request holds, between the system
\* instruction and the current question, exactly the most recent min(10, n)
\* of the n messages that precede the question in the conversation, in
\* creation order.
\* The messages of the conversation stored before the question of the request
\* in progress.
Preceding ==
  LET q == CHOOSE i \in DOMAIN messages : messages[i].req = served /\ messages[i].role = "user"
  IN AsHistory(SelectSeq(SubSeq(messages, 1, q - 1),
                         LAMBDA m : m.conversation_id = chat.conv))

PromptHoldsLast10 ==
  LET prior == Preceding
      k == Min(10, Len(prior))
      n == Len(chat.prompt)
  IN /\ n = k + 2
     /\ chat.prompt[1].role = "system"
     /\ chat.prompt[n].role = "user"
     /\ chat.prompt[n].content.query = chat.query
     /\ \A j \in 1..k :
          /\ chat.prompt[1 + j].role = prior[Len(prior) - k + j].role
          /\ chat.prompt[1 + j].content = prior[Len(prior) - k + j].content

C23_PromptHoldsLastTenTurns == chat.prompt # <<>> => PromptHoldsLast10


\* ---------------------------------------------------------------------
\* C30: after a '/selecionar n' of a Telegram user has succeeded for case P,
\* the conversation _handle_message picks for a plain-text message of that
\* user is the Telegram conversation of P, whatever /selecionar commands and
\* messages came before.
C30_MessageGoesToSelectedCase ==
  [][(served' = served + 1 /\ chat'.kind = "telegram" /\ selected # 0) =>
       /\ conversations[chat'.conv].processo_id = selected
       /\ chat'.conv = TelegramConvOf(selected)]_vars

\* What does hold: the message goes to the Telegram conversation that was
\* updated last.
C30_MessageGoesToLastUpdated ==
  [][(served' = served + 1 /\ chat'.kind = "telegram") =>
       \A c \in TelegramConvs : conv_table[c].updated_at <= conv_table[chat'.conv].updated_at]_vars

====
